---- MODULE Spec2Model ----
(***************************************************************************)
(* Candidate ledgers and the global picker of the YOLO pipeline            *)
(* (youtube/yolo/WIN/scripts/pick_global_candidates_win.py, common_win.py, *)
(* youtube/yolo/pick_from_candidates.py) and the queue drain of            *)
(* active/upload_from_queue.py.                                            *)
(***************************************************************************)
EXTENDS Integers, Sequences, FiniteSets, TLC

VARIABLES
    ledger,         \* session -> the lines of its candidates_20s.jsonl
    pc,             \* "idle": no picker process; "done": main() has returned
    args,           \* the argparse namespace of the current picker run
    pool,           \* the pool main() built (after the motion filter)
    chosen,         \* the rows main() selected (after the [:total] cut)
    status,         \* how main() ended
    picked_before,  \* <<session, index>> of rows marked by earlier committed runs
    event_queue,    \* the lines of the event queue file the pickers append to
    todo,           \* the file writes the running picker has still to do, in order
    raw,            \* session -> its raw_yolo.jsonl
    exists,         \* the sessions whose candidates_20s.jsonl exists
    build,          \* the last run of build_candidates_win.py: arguments and outcome
    calc,           \* a call of a pure function: its name, arguments and result
    pipe,           \* the event-queue pipeline: its lock file, its run, its output queues
    fs,             \* file id -> the lines the file holds
    dir,            \* path ("ledger", "tmp", "queue") -> file id, 0 when absent
    proc,           \* writer process -> its position and local variables
    drain,          \* the queue drainer: its position and local variables
    origin,         \* the ledger and the queue as they were before any writer ran
    last_replace    \* the writer whose tmp.replace(p) succeeded last

pickVars == <<ledger, pc, args, pool, chosen, status, picked_before, event_queue, todo>>

buildVars == <<raw, exists, build>>

calcVars == <<calc>>

pipeVars == <<pipe>>

ioVars == <<fs, dir, proc, drain, origin, last_replace>>

vars == <<pickVars, ioVars, buildVars, calcVars, pipeVars>>

--------------------------------------------------------------------------
(* Bounds and input sets *)

MaxRows == 2    \* lines in the first session's ledger
MaxQueue == 2   \* lines in the upload queue

Sessions == {"s1", "s2"}

SessionOrder == <<"s1", "s2">>     \* the order rglob yields the ledgers

\* now.isoformat() of a run
Timestamps == {"2026-02-12T18:00:00+09:00"}

NoStamp == ""       \* the key is absent from the row

\* --start: not given, or an RFC 3339 time
StartChoices == {""}

\* --pitch-hours: -1 is the default and means "take it from the configuration"
PitchChoices == {-1, 1}

\* publish_pitch_hours of config.json
ConfPitchHours == 3

--------------------------------------------------------------------------
(* Ledger lines *)

Row(s, e, m) ==
    [kind |-> "row", start_abs |-> s, end_abs |-> e, motion |-> m, hits |-> 20,
     picked_at |-> NoStamp, pick_id |-> NoStamp, video_id |-> NoStamp]

\* a line json.loads rejects
BadLine == [kind |-> "bad", start_abs |-> 0, end_abs |-> 0, motion |-> 0, hits |-> 0,
            picked_at |-> NoStamp, pick_id |-> NoStamp, video_id |-> NoStamp]

\* a line that is empty after strip()
BlankLine == [kind |-> "blank", start_abs |-> 0, end_abs |-> 0, motion |-> 0, hits |-> 0,
              picked_at |-> NoStamp, pick_id |-> NoStamp, video_id |-> NoStamp]

\* a row an upload already recorded a video_id on
Uploaded(s, e, m) == [Row(s, e, m) EXCEPT !.video_id = "vid"]

\* a JSON object without start_abs / end_abs (-1 stands for the missing key)
NoWindow(m) == Row(-1, -1, m)

LineChoices ==
    { Row(0, 20, 10), Row(10, 30, 15), Row(20, 40, 10), BadLine }

SeqsUpTo(S, n) == UNION { [1..k -> S] : k \in 0..n }

\* the second session's ledger: an uploaded row, an empty line, a row without
\* a window, one eligible row
OtherLedger == << Uploaded(0, 20, 15), BlankLine, NoWindow(10), Row(10, 30, 15) >>

--------------------------------------------------------------------------
(* common_win.py *)

RECURSIVE NonBlank(_)
NonBlank(lines) ==
    IF lines = << >> THEN << >>
    ELSE (IF Head(lines).kind = "blank" THEN << >> ELSE << Head(lines) >>)
         \o NonBlank(Tail(lines))

\* read_jsonl: blank lines are skipped, json.loads raises on any other
\* line that is no JSON (ok = FALSE stands for the exception)
read_jsonl(lines) ==
    [ok   |-> \A i \in 1..Len(lines) : lines[i].kind # "bad",
     rows |-> NonBlank(lines)]

--------------------------------------------------------------------------
(* pick_global_candidates_win.py: pure helpers *)

RangeSpec(lo, hi, n, label) == [lo |-> lo, hi |-> hi, n |-> n, label |-> label]

\* overlaps with the second test on the wrong end of a
overlaps_WrongEnd(a, b) == ~(a[2] <= b[1] \/ b[2] <= a[2])

overlaps(a, b) == ~(a[2] <= b[1] \/ b[2] <= a[1])

\* in_range with the upper end left out
in_range_HiExclusive(motion, r) == r.lo <= motion /\ motion < r.hi

in_range(motion, r) == r.lo <= motion /\ motion <= r.hi

\* row2 of collect_candidates: the row with its back-reference
PoolRow(sess, i, row) ==
    [session_dir |-> sess, source_index |-> i,
     start_abs |-> row.start_abs, end_abs |-> row.end_abs,
     motion |-> row.motion, pick_reason |-> "", band |-> 0]

Eligible(row, skip_uploaded) ==
    /\ row.picked_at = NoStamp
    /\ ~(skip_uploaded /\ row.video_id # NoStamp)
    /\ row.start_abs # -1 /\ row.end_abs # -1

RECURSIVE CollectFrom(_, _, _, _)
CollectFrom(sess, rows, i, skip_uploaded) ==
    IF i > Len(rows) THEN << >>
    ELSE (IF Eligible(rows[i], skip_uploaded)
          THEN << PoolRow(sess, i, rows[i]) >> ELSE << >>)
         \o CollectFrom(sess, rows, i + 1, skip_uploaded)

RECURSIVE CollectSessions(_, _, _)
CollectSessions(led, k, skip_uploaded) ==
    IF k > Len(SessionOrder) THEN << >>
    ELSE CollectFrom(SessionOrder[k], read_jsonl(led[SessionOrder[k]]).rows, 1,
                     skip_uploaded)
         \o CollectSessions(led, k + 1, skip_uploaded)

\* collect_candidates: ok = FALSE when a read_jsonl raised
collect_candidates(led, skip_uploaded) ==
    [ok   |-> \A s \in Sessions : read_jsonl(led[s]).ok,
     rows |-> CollectSessions(led, 1, skip_uploaded)]

RECURSIVE FilterSeq(_, _)
FilterSeq(seq, keep) ==
    IF seq = << >> THEN << >>
    ELSE (IF keep[1] THEN << Head(seq) >> ELSE << >>)
         \o FilterSeq(Tail(seq), Tail(keep))

Select(seq, Test(_)) == FilterSeq(seq, [i \in 1..Len(seq) |-> Test(seq[i])])

--------------------------------------------------------------------------
(* random.Random: a shuffle is a permutation of the positions *)

\* the permutations of 1..n, as sequences
RECURSIVE Perms(_)
Perms(n) ==
    IF n = 0 THEN { << >> }
    ELSE { SubSeq(p, 1, k - 1) \o << n >> \o SubSeq(p, k, n - 1) :
             p \in Perms(n - 1), k \in 1..n }

Shuffle(seq, perm) == [i \in 1..Len(seq) |-> seq[perm[i]]]

\* random.Random(0).shuffle on a list of n items (CPython's Mersenne Twister)
Random0(n) ==
    CASE n = 0 -> << >>
      [] n = 1 -> << 1 >>
      [] n = 2 -> << 1, 2 >>
      [] n = 3 -> << 1, 3, 2 >>
      [] n = 4 -> << 3, 1, 2, 4 >>
      [] n = 5 -> << 3, 2, 1, 5, 4 >>
      [] n = 6 -> << 5, 3, 2, 1, 6, 4 >>
      [] n = 7 -> << 5, 3, 2, 1, 6, 4, 7 >>

--------------------------------------------------------------------------
(* The greedy admission shared by the four strategies *)

EmptyAcc ==
    [out |-> << >>, got |-> 0,
     cnt |-> [s \in Sessions |-> 0],
     win |-> [s \in Sessions |-> << >>]]

\* Admit with the cap test off by one
Admit_CapOffByOne(row, acc, no_overlap, max_per_session) ==
    LET sess == row.session_dir
        cnt  == acc.cnt[sess]
        w    == << row.start_abs, row.end_abs >>
        existing == acc.win[sess]
    IN  IF max_per_session > 0 /\ cnt > max_per_session THEN acc
        ELSE IF no_overlap /\ \E k \in 1..Len(existing) : overlaps(w, existing[k])
        THEN acc
        ELSE [out |-> Append(acc.out, row),
              got |-> acc.got + 1,
              cnt |-> [acc.cnt EXCEPT ![sess] = cnt + 1],
              win |-> [acc.win EXCEPT ![sess] = Append(existing, w)]]

\* one turn of the for-loop body after the quota test
Admit(row, acc, no_overlap, max_per_session) ==
    LET sess == row.session_dir
        cnt  == acc.cnt[sess]
        w    == << row.start_abs, row.end_abs >>
        existing == acc.win[sess]
    IN  IF max_per_session > 0 /\ cnt >= max_per_session THEN acc
        ELSE IF no_overlap /\ \E k \in 1..Len(existing) : overlaps(w, existing[k])
        THEN acc
        ELSE [out |-> Append(acc.out, row),
              got |-> acc.got + 1,
              cnt |-> [acc.cnt EXCEPT ![sess] = cnt + 1],
              win |-> [acc.win EXCEPT ![sess] = Append(existing, w)]]

RECURSIVE RandomLoop(_, _, _, _, _, _)
RandomLoop(candidates, k, total, acc, no_overlap, max_per_session) ==
    IF k > Len(candidates) \/ Len(acc.out) >= total THEN acc
    ELSE RandomLoop(candidates, k + 1, total,
                    Admit(candidates[k], acc, no_overlap, max_per_session),
                    no_overlap, max_per_session)

choose_random(pool_, total, rng, no_overlap, max_per_session) ==
    RandomLoop(Shuffle(pool_, rng), 1, total, EmptyAcc, no_overlap,
               max_per_session).out

\* stable insertion: x goes after every row whose motion is >= its own
InsertDesc(sorted, x) ==
    LET n == Cardinality({ i \in 1..Len(sorted) : sorted[i].motion >= x.motion })
    IN  SubSeq(sorted, 1, n) \o << x >> \o SubSeq(sorted, n + 1, Len(sorted))

\* sorted(items, key=motion, reverse=True): stable
RECURSIVE SortedDesc(_)
SortedDesc(seq) ==
    IF seq = << >> THEN << >>
    ELSE InsertDesc(SortedDesc(SubSeq(seq, 1, Len(seq) - 1)), seq[Len(seq)])

choose_motion(pool_, total, no_overlap, max_per_session) ==
    choose_random(SortedDesc(pool_), total, Random0(Len(pool_)), no_overlap,
                  max_per_session)

InBand(pool_, r) == Select(pool_, LAMBDA x : in_range(x.motion, r))

\* BandLoop with the quota test off by one
RECURSIVE BandLoop_QuotaOffByOne(_, _, _, _, _, _, _, _)
BandLoop_QuotaOffByOne(items, k, r, b, tag, acc, no_overlap, max_per_session) ==
    IF k > Len(items) \/ acc.got > r.n THEN acc
    ELSE LET row2 == [items[k] EXCEPT !.pick_reason = tag, !.band = b]
         IN  BandLoop_QuotaOffByOne(items, k + 1, r, b, tag,
                      Admit(row2, acc, no_overlap, max_per_session),
                      no_overlap, max_per_session)

\* the inner for-loop of choose_band / choose_hybrid for band b of the list
RECURSIVE BandLoop(_, _, _, _, _, _, _, _)
BandLoop(items, k, r, b, tag, acc, no_overlap, max_per_session) ==
    IF k > Len(items) \/ acc.got >= r.n THEN acc
    ELSE LET row2 == [items[k] EXCEPT !.pick_reason = tag, !.band = b]
         IN  BandLoop(items, k + 1, r, b, tag,
                      Admit(row2, acc, no_overlap, max_per_session),
                      no_overlap, max_per_session)

\* BandsFrom that gives up at the first band it cannot fill
RECURSIVE BandsFrom_StopAtShortfall(_, _, _, _, _, _, _)
BandsFrom_StopAtShortfall(pool_, ranges, b, rng, acc, no_overlap, max_per_session) ==
    IF b > Len(ranges) THEN acc
    ELSE LET r     == ranges[b]
             items == Shuffle(InBand(pool_, r), rng[b])
             acc2  == BandLoop(items, 1, r, b, "band:" \o r.label,
                               [acc EXCEPT !.got = 0], no_overlap, max_per_session)
         IN  IF acc2.got < r.n THEN acc2
             ELSE BandsFrom_StopAtShortfall(pool_, ranges, b + 1, rng, acc2,
                                            no_overlap, max_per_session)

\* rng[b] is the permutation the b-th rng.shuffle applies
RECURSIVE BandsFrom(_, _, _, _, _, _, _)
BandsFrom(pool_, ranges, b, rng, acc, no_overlap, max_per_session) ==
    IF b > Len(ranges) THEN acc
    ELSE LET r     == ranges[b]
             items == Shuffle(InBand(pool_, r), rng[b])
         IN  BandsFrom(pool_, ranges, b + 1, rng,
                       BandLoop(items, 1, r, b, "band:" \o r.label,
                                [acc EXCEPT !.got = 0], no_overlap, max_per_session),
                       no_overlap, max_per_session)

choose_band(pool_, ranges, rng, no_overlap, max_per_session) ==
    BandsFrom(pool_, ranges, 1, rng, EmptyAcc, no_overlap, max_per_session).out

Max(a, b) == IF a >= b THEN a ELSE b

Min(a, b) == IF a <= b THEN a ELSE b

\* the rows a band of choose_hybrid keeps before its shuffle
\* TopHalf that keeps every row of the band
TopHalf_KeepAll(pool_, r) == SortedDesc(InBand(pool_, r))

TopHalf(pool_, r) ==
    LET items  == SortedDesc(InBand(pool_, r))
        keep_n == Max(1, Len(items) \div 2)
    IN  IF items = << >> THEN << >> ELSE SubSeq(items, 1, keep_n)

RECURSIVE HybridFrom(_, _, _, _, _, _, _)
HybridFrom(pool_, ranges, b, rng, acc, no_overlap, max_per_session) ==
    IF b > Len(ranges) THEN acc
    ELSE LET r     == ranges[b]
             items == Shuffle(TopHalf(pool_, r), rng[b])
         IN  HybridFrom(pool_, ranges, b + 1, rng,
                        BandLoop(items, 1, r, b, "hybrid:" \o r.label,
                                 [acc EXCEPT !.got = 0], no_overlap, max_per_session),
                        no_overlap, max_per_session)

choose_hybrid(pool_, ranges, rng, no_overlap, max_per_session) ==
    HybridFrom(pool_, ranges, 1, rng, EmptyAcc, no_overlap, max_per_session).out

--------------------------------------------------------------------------
(* mark_picked and main *)

\* picked_at.replace(":", "").replace("-", "")
PickId(picked_at) ==
    CASE picked_at = "2026-02-12T18:00:00+09:00" -> "20260212T180000+0900"
      [] picked_at = "2026-02-12T21:00:00+09:00" -> "20260212T210000+0900"

\* MarkRow that records pick_id but not picked_at
MarkRow_NoPickedAt(row, picked_at) ==
    [row EXCEPT !.pick_id = PickId(picked_at)]

\* the two assignments of the inner loop of mark_picked
MarkRow(row, picked_at) ==
    [row EXCEPT !.picked_at = picked_at, !.pick_id = PickId(picked_at)]

IdxsOf(chosen_, sess) ==
    { chosen_[k].source_index : k \in { j \in 1..Len(chosen_) : chosen_[j].session_dir = sess } }

\* MarkedRows that takes the indices as 1-based positions of a 0-based list
MarkedRows_ShiftedIndex(lines, idxs, picked_at) ==
    LET source_rows == read_jsonl(lines).rows
    IN  [i \in 1..Len(source_rows) |->
            IF (i - 1) \in idxs THEN MarkRow(source_rows[i], picked_at)
            ELSE source_rows[i]]

\* source_rows of one ledger after the marks, as write_jsonl_atomic gets them
MarkedRows(lines, idxs, picked_at) ==
    LET source_rows == read_jsonl(lines).rows
    IN  [i \in 1..Len(source_rows) |->
            IF i \in idxs THEN MarkRow(source_rows[i], picked_at) ELSE source_rows[i]]

\* mark_picked: only the ledgers that hold a chosen row are rewritten
mark_picked(led, chosen_, picked_at) ==
    [s \in Sessions |->
        IF IdxsOf(chosen_, s) = {} THEN led[s]
        ELSE MarkedRows(led[s], IdxsOf(chosen_, s), picked_at)]

Truncate(seq, total) ==
    IF total > 0 /\ Len(seq) > total THEN SubSeq(seq, 1, total) ELSE seq

\* chosen of main() for the mode of a; rng is what the seed makes the shuffles do
Choose(a, pool_, rng) ==
    CASE a.mode = "random" ->
            choose_random(pool_, a.total, rng[1], a.no_overlap, a.max_per_session)
      [] a.mode = "motion" ->
            choose_motion(pool_, a.total, a.no_overlap, a.max_per_session)
      [] a.mode = "band" ->
            choose_band(pool_, a.ranges, rng, a.no_overlap, a.max_per_session)
      [] a.mode = "hybrid" ->
            choose_hybrid(pool_, a.ranges, rng, a.no_overlap, a.max_per_session)

\* the lengths of the lists the run shuffles, in order
ShuffleLens(a, pool_) ==
    CASE a.mode = "random" -> << Len(pool_) >>
      [] a.mode = "motion" -> << >>
      [] a.mode = "band"   -> [b \in 1..Len(a.ranges) |-> Len(InBand(pool_, a.ranges[b]))]
      [] a.mode = "hybrid" -> [b \in 1..Len(a.ranges) |-> Len(TopHalf(pool_, a.ranges[b]))]

RECURSIVE RngChoices(_)
RngChoices(lens) ==
    IF lens = << >> THEN { << >> }
    ELSE { << p >> \o rest : p \in Perms(Head(lens)), rest \in RngChoices(Tail(lens)) }

MotionFilter(a, rows) ==
    Select(rows, LAMBDA x : a.min_motion <= x.motion /\ x.motion <= a.max_motion)

--------------------------------------------------------------------------
(* The event queue: to_event_row and the publish times *)

DigitChars == << "0", "1", "2", "3", "4", "5", "6", "7", "8", "9" >>

\* str(n) of a non-negative integer, one character per element
RECURSIVE Digits(_)
Digits(n) ==
    IF n < 10 THEN << DigitChars[n + 1] >>
    ELSE Digits(n \div 10) \o << DigitChars[(n % 10) + 1] >>

\* Fmt05d that cuts the number to its last five digits
Fmt05d_Cut(n) ==
    LET d == Digits(n)
    IN  IF Len(d) >= 5 THEN SubSeq(d, Len(d) - 4, Len(d))
        ELSE [i \in 1..(5 - Len(d)) |-> "0"] \o d

\* f"{n:05d}" of a non-negative integer: zero-padded to five characters,
\* longer numbers are kept whole
Fmt05d(n) ==
    LET d == Digits(n)
    IN  IF Len(d) >= 5 THEN d ELSE [i \in 1..(5 - Len(d)) |-> "0"] \o d

\* f"{start_abs:05d}_{end_abs:05d}"
EventName(start_abs, end_abs) == Fmt05d(start_abs) \o << "_" >> \o Fmt05d(end_abs)

\* minutes after 2026-02-12T00:00:00+09:00 of a time of that day
Minutes(ts) ==
    CASE ts = "2026-02-12T18:00:00+09:00" -> 1080
      [] ts = "2026-02-12T21:00:00+09:00" -> 1260

\* start_dt of main(): --start when given, else five minutes from now
StartDt(a, now) == IF a.start # "" THEN Minutes(a.start) ELSE Minutes(now) + 5

\* pitch_hours of main()
PitchHours(a) == IF a.pitch_hours < 0 THEN ConfPitchHours ELSE a.pitch_hours

\* PublishAt that gives every row the start time
PublishAt_NoPitch(start_dt, idx, pitch_hours) == start_dt

\* start_dt + timedelta(hours=idx * pitch_hours), idx from 0, in minutes
PublishAt(start_dt, idx, pitch_hours) == start_dt + idx * pitch_hours * 60

to_event_row(row, publish_at, route) ==
    [session_dir |-> row.session_dir,
     event_name |-> EventName(row.start_abs, row.end_abs),
     publishAt |-> publish_at, route |-> route,
     motion |-> row.motion, pick_reason |-> row.pick_reason]

\* rows_out of main()
RowsOut(chosen_, a, now) ==
    [k \in 1..Len(chosen_) |->
        to_event_row(chosen_[k], PublishAt(StartDt(a, now), k - 1, PitchHours(a)),
                     "yolo_win")]

\* the lines pick_from_candidates.py appends with --enqueue
SessionRowsOut(chosen_, a, now) ==
    [k \in 1..Len(chosen_) |->
        [session_dir |-> chosen_[k].session_dir,
         event_name |-> EventName(chosen_[k].start_abs, chosen_[k].end_abs),
         publishAt |-> PublishAt(StartDt(a, now), k - 1, a.pitch_hours),
         route |-> "yolo"]]

\* a line of an earlier batch whose processing fails at every pipeline run
OldEvent ==
    [session_dir |-> "s0", event_name |-> EventName(300, 320), publishAt |-> 600,
     route |-> "yolo_win", motion |-> 12, pick_reason |-> "band:10_20"]

\* the event queue a picker batch starts on: the pipeline has taken the
\* lines of the batch before, except the line it keeps retrying
StartQueues == { << >>, << OldEvent >> }

\* run_event_queue_pipeline_yolo_win.py, queue mode with --max not below the
\* queue length: new_queue = retry_items + rem_lines, and the items that fail
\* are retried
PipelineRun ==
    /\ pc = "idle"
    /\ event_queue \notin StartQueues
    /\ event_queue' = SelectSeq(event_queue, LAMBDA l : l = OldEvent)
    /\ UNCHANGED <<ledger, pc, args, pool, chosen, status, picked_before, todo>>
    /\ UNCHANGED <<ioVars, buildVars, calcVars, pipeVars>>

--------------------------------------------------------------------------
(* pick_from_candidates.py: the picker of one session *)

\* the eligible list of one band: indices in ledger order
SessionEligible(sess, rows, spec, skip_uploaded) ==
    Select(CollectFrom(sess, rows, 1, skip_uploaded),
           LAMBDA x : in_range(x.motion, spec))

\* the loop over the shuffled eligible list; allow_overlap is args.no_overlap,
\* which this script's help text defines as "allow overlapping windows"
RECURSIVE SessionLoop(_, _, _, _, _, _)
SessionLoop(items, k, spec, b, acc, allow_overlap) ==
    IF k > Len(items) \/ acc.got >= spec.n THEN acc
    ELSE LET row == [items[k] EXCEPT !.pick_reason = spec.label, !.band = b]
             w   == << row.start_abs, row.end_abs >>
             chosen_windows == acc.win[row.session_dir]
             hit == \E j \in 1..Len(chosen_windows) : overlaps(w, chosen_windows[j])
             acc2 == IF ~allow_overlap /\ hit THEN acc
                     ELSE [acc EXCEPT !.out = Append(acc.out, row),
                                      !.got = acc.got + 1,
                                      !.win[row.session_dir] = Append(chosen_windows, w)]
         IN  SessionLoop(items, k + 1, spec, b, acc2, allow_overlap)

RECURSIVE SessionBands(_, _, _, _, _, _, _, _)
SessionBands(sess, rows, ranges, b, rng, acc, allow_overlap, skip_uploaded) ==
    IF b > Len(ranges) THEN acc
    ELSE LET items == Shuffle(SessionEligible(sess, rows, ranges[b], skip_uploaded),
                              rng[b])
         IN  SessionBands(sess, rows, ranges, b + 1, rng,
                          SessionLoop(items, 1, ranges[b], b,
                                      [acc EXCEPT !.got = 0], allow_overlap),
                          allow_overlap, skip_uploaded)

\* chosen_indices, as tagged rows
session_pick(sess, rows, ranges, rng, allow_overlap, skip_uploaded) ==
    SessionBands(sess, rows, ranges, 1, rng, EmptyAcc, allow_overlap,
                 skip_uploaded).out

SessionShuffleLens(sess, rows, ranges, skip_uploaded) ==
    [b \in 1..Len(ranges) |->
        Len(SessionEligible(sess, rows, ranges[b], skip_uploaded))]

\* rows after the marking loop; the ledger is rewritten whatever was chosen
session_mark(led, sess, chosen_, now) ==
    [led EXCEPT ![sess] = MarkedRows(led[sess], IdxsOf(chosen_, sess), now)]

--------------------------------------------------------------------------
(* Command lines *)

MinMotionDefault == -1000000000
MaxMotionDefault == 1000000000

Modes == {"random", "motion", "band", "hybrid"}

Quotas == {1, 2}

Totals == {2, 3}

\* band lists in the shape of the default one: the bands share the boundary 10
RangeLists ==
    { << RangeSpec(0, 10, n1, "le10"), RangeSpec(10, 20, n2, "10_20") >> :
        n1 \in Quotas, n2 \in Quotas }

DefaultRanges == << RangeSpec(0, 10, 2, "le10"), RangeSpec(10, 20, 1, "10_20") >>

ArgChoices ==
    { a \in [mode : Modes, session_dir : {""}, total : Totals, no_overlap : BOOLEAN,
             max_per_session : {0, 1}, ranges : RangeLists, dry_run : BOOLEAN,
             skip_uploaded : {TRUE},
             min_motion : {MinMotionDefault}, max_motion : {MaxMotionDefault},
             start : StartChoices, pitch_hours : PitchChoices, enqueue : {TRUE}] :
        /\ a.mode \in {"random", "motion"} => a.ranges = DefaultRanges
        /\ a.mode # "motion" => a.pitch_hours = -1 }

SessionArgChoices ==
    [mode : {"session"}, session_dir : Sessions, total : {0},
     no_overlap : BOOLEAN, max_per_session : {0}, ranges : RangeLists,
     dry_run : {FALSE}, skip_uploaded : BOOLEAN,
     min_motion : {MinMotionDefault}, max_motion : {MaxMotionDefault},
     start : StartChoices, pitch_hours : {3}, enqueue : BOOLEAN]

NoArgs ==
    [mode |-> "none", session_dir |-> "", total |-> 0, no_overlap |-> FALSE, max_per_session |-> 0,
     ranges |-> << >>, dry_run |-> FALSE, skip_uploaded |-> FALSE,
     min_motion |-> 0, max_motion |-> 0,
     start |-> "", pitch_hours |-> 0, enqueue |-> FALSE]

--------------------------------------------------------------------------
(* The picker process *)

Keys(chosen_) ==
    { << chosen_[k].session_dir, chosen_[k].source_index >> : k \in 1..Len(chosen_) }

\* main() of pick_global_candidates_win.py, from parse_args to its return
PickerMain ==
    /\ pc = "idle"
    /\ build.status = "none"
    /\ event_queue \in StartQueues
    /\ \E a \in ArgChoices, now \in Timestamps :
        \E got \in { collect_candidates(ledger, a.skip_uploaded) } :
        \E pool_ \in { MotionFilter(a, got.rows) } :
            /\ args' = a
            /\ pc' = "done"
            /\ IF ~got.ok
               THEN /\ status' = "error"
                    /\ pool' = << >>
                    /\ chosen' = << >>
                    /\ UNCHANGED <<ledger, event_queue>>
               ELSE IF pool_ = << >>
               THEN /\ status' = "no_eligible"
                    /\ pool' = pool_
                    /\ chosen' = << >>
                    /\ UNCHANGED <<ledger, event_queue>>
               ELSE \E rng \in RngChoices(ShuffleLens(a, pool_)) :
                    \E chosen_ \in { Truncate(Choose(a, pool_, rng), a.total) } :
                        /\ pool' = pool_
                        /\ chosen' = chosen_
                        /\ IF chosen_ = << >>
                           THEN status' = "nothing_picked" /\ UNCHANGED <<ledger, event_queue>>
                           ELSE IF a.dry_run
                           THEN status' = "dry" /\ UNCHANGED <<ledger, event_queue>>
                           ELSE /\ status' = "ok"
                                /\ ledger' = mark_picked(ledger, chosen_, now)
                                /\ event_queue' = event_queue \o RowsOut(chosen_, a, now)
    /\ UNCHANGED <<picked_before, todo>>
    /\ UNCHANGED <<ioVars, buildVars, calcVars, pipeVars>>

\* main() of pick_from_candidates.py
SessionPickMain ==
    /\ pc = "idle"
    /\ build.status = "none"
    /\ event_queue \in StartQueues
    /\ \E a \in SessionArgChoices, now \in Timestamps :
        \E got \in { read_jsonl(ledger[a.session_dir]) } :
            /\ args' = a
            /\ pc' = "done"
            /\ IF a.session_dir \notin exists \/ ~got.ok
               THEN /\ status' = "error"
                    /\ pool' = << >>
                    /\ chosen' = << >>
                    /\ UNCHANGED <<ledger, event_queue>>
               ELSE \E rng \in RngChoices(SessionShuffleLens(a.session_dir, got.rows,
                                                            a.ranges, a.skip_uploaded)) :
                    \E chosen_ \in { session_pick(a.session_dir, got.rows, a.ranges, rng,
                                                  a.no_overlap, a.skip_uploaded) } :
                        /\ pool' = CollectFrom(a.session_dir, got.rows, 1, a.skip_uploaded)
                        /\ chosen' = chosen_
                        /\ status' = "ok"
                        /\ ledger' = session_mark(ledger, a.session_dir, chosen_, now)
                        /\ IF a.enqueue
                           THEN event_queue' =
                                   event_queue \o SessionRowsOut(chosen_, a, now)
                           ELSE UNCHANGED event_queue
    /\ UNCHANGED <<picked_before, todo>>
    /\ UNCHANGED <<ioVars, buildVars, calcVars, pipeVars>>

\* the process ends: nothing but the files outlives it
PickerExit ==
    /\ pc = "done"
    /\ pc' = "idle"
    /\ picked_before' =
          IF status = "ok" THEN picked_before \cup Keys(chosen) ELSE picked_before
    /\ args' = NoArgs
    /\ pool' = << >>
    /\ chosen' = << >>
    /\ status' = "none"
    /\ UNCHANGED <<ledger, event_queue, todo>>
    /\ UNCHANGED <<ioVars, buildVars, calcVars, pipeVars>>

\* no writer process is looked at step by step
IoIdle ==
    /\ fs = << >>
    /\ dir = [ledger |-> 0, tmp |-> 0, queue |-> 0]
    /\ proc = << >>
    /\ drain = [pc |-> "none"]
    /\ origin = [ledger |-> << >>, queue |-> << >>]
    /\ last_replace = "none"

\* no builder run is looked at: every session has its ledger
BuildIdle ==
    /\ raw = [s \in Sessions |-> << >>]
    /\ exists = Sessions
    /\ build = [status |-> "none"]

\* no pure function is called
CalcIdle == calc = [fn |-> "none"]

\* the --max, --event-dir, --review-before-api and --no-api of no run
NoPipeArgs == [max |-> 0, event_dir |-> "", review_before_api |-> FALSE, no_api |-> FALSE]

\* no pipeline process; the lock file and the output queues are files
PipeRest(lock, runs, upload_queue, deferred_queue, rejected_queue) ==
    [pc |-> "idle", lock |-> lock, runs |-> runs, args |-> NoPipeArgs, queue_mode |-> FALSE,
     start_lines |-> << >>, work_items |-> << >>, rem_lines |-> << >>,
     retry_items |-> << >>, outcomes |-> << >>, exit |-> "none",
     upload_queue |-> upload_queue, deferred_queue |-> deferred_queue,
     rejected_queue |-> rejected_queue]

\* no pipeline has run
PipeIdle == pipe = PipeRest(FALSE, 0, << >>, << >>, << >>)

Init ==
    /\ \E first \in SeqsUpTo(LineChoices, MaxRows) :
          ledger = [s \in Sessions |-> IF s = "s1" THEN first ELSE OtherLedger]
    /\ pc = "idle"
    /\ args = NoArgs
    /\ pool = << >>
    /\ chosen = << >>
    /\ status = "none"
    /\ picked_before = {}
    /\ todo = << >>
    /\ event_queue = << >>
    /\ IoIdle
    /\ BuildIdle
    /\ CalcIdle
    /\ PipeIdle

Next == PickerMain \/ SessionPickMain \/ PickerExit \/ PipelineRun

Spec == Init /\ [][Next]_vars

\* picker batches on an event queue that holds a line of an earlier batch
InitQueue ==
    /\ \E first \in SeqsUpTo({ Row(0, 20, 10), Row(10, 30, 15) }, MaxRows) :
          ledger = [s \in Sessions |-> IF s = "s1" THEN first ELSE OtherLedger]
    /\ pc = "idle"
    /\ args = NoArgs
    /\ pool = << >>
    /\ chosen = << >>
    /\ status = "none"
    /\ picked_before = {}
    /\ todo = << >>
    /\ event_queue = << OldEvent >>
    /\ IoIdle
    /\ BuildIdle
    /\ CalcIdle
    /\ PipeIdle

SpecQueue == InitQueue /\ [][Next]_vars

--------------------------------------------------------------------------
(* The writes of a picker run, one file operation at a time *)

\* by_file of mark_picked: the ledgers of the chosen rows, in the order of
\* their first row
RECURSIVE FilesOf(_)
FilesOf(chosen_) ==
    IF chosen_ = << >> THEN << >>
    ELSE LET rest == FilesOf(SubSeq(chosen_, 1, Len(chosen_) - 1))
             s    == chosen_[Len(chosen_)].session_dir
         IN  IF \E i \in 1..Len(rest) : rest[i] = s THEN rest ELSE Append(rest, s)

MarkSteps(chosen_, picked_at) ==
    [k \in 1..Len(FilesOf(chosen_)) |->
        [op |-> "mark", file |-> FilesOf(chosen_)[k], picked_at |-> picked_at]]

AppendSteps(rows_out) == [k \in 1..Len(rows_out) |-> [op |-> "append", line |-> rows_out[k]]]

\* CommitPlan that appends the schedule entries before it marks the ledgers
CommitPlan_AppendFirst(chosen_, rows_out, picked_at) ==
    AppendSteps(rows_out) \o MarkSteps(chosen_, picked_at)

\* the writes of main() after the dry-run test: mark_picked rewrites one
\* ledger after the other, then append_jsonl adds one line after the other
\* (pick_from_candidates.py: write_jsonl_atomic of the one ledger, then the
\* appends)
CommitPlan(chosen_, rows_out, picked_at) ==
    MarkSteps(chosen_, picked_at) \o AppendSteps(rows_out)

\* main() of pick_global_candidates_win.py up to the first write
PickerStart ==
    /\ pc = "idle"
    /\ build.status = "none"
    /\ event_queue \in StartQueues
    /\ \E a \in ArgChoices, now \in Timestamps :
        \E got \in { collect_candidates(ledger, a.skip_uploaded) } :
        \E pool_ \in { MotionFilter(a, got.rows) } :
            /\ args' = a
            /\ IF ~got.ok
               THEN /\ pc' = "done" /\ status' = "error"
                    /\ pool' = << >> /\ chosen' = << >> /\ todo' = << >>
               ELSE IF pool_ = << >>
               THEN /\ pc' = "done" /\ status' = "no_eligible"
                    /\ pool' = pool_ /\ chosen' = << >> /\ todo' = << >>
               ELSE \E rng \in RngChoices(ShuffleLens(a, pool_)) :
                    \E chosen_ \in { Truncate(Choose(a, pool_, rng), a.total) } :
                        /\ pool' = pool_
                        /\ chosen' = chosen_
                        /\ IF chosen_ = << >>
                           THEN pc' = "done" /\ status' = "nothing_picked" /\ todo' = << >>
                           ELSE IF a.dry_run
                           THEN pc' = "done" /\ status' = "dry" /\ todo' = << >>
                           ELSE /\ pc' = "commit" /\ status' = "running"
                                /\ todo' = CommitPlan(chosen_, RowsOut(chosen_, a, now), now)
    /\ UNCHANGED <<ledger, event_queue, picked_before>>
    /\ UNCHANGED <<ioVars, buildVars, calcVars, pipeVars>>

\* main() of pick_from_candidates.py up to the first write
SessionPickStart ==
    /\ pc = "idle"
    /\ build.status = "none"
    /\ event_queue \in StartQueues
    /\ \E a \in SessionArgChoices, now \in Timestamps :
        \E got \in { read_jsonl(ledger[a.session_dir]) } :
            /\ args' = a
            /\ IF a.session_dir \notin exists \/ ~got.ok
               THEN /\ pc' = "done" /\ status' = "error"
                    /\ pool' = << >> /\ chosen' = << >> /\ todo' = << >>
               ELSE \E rng \in RngChoices(SessionShuffleLens(a.session_dir, got.rows,
                                                            a.ranges, a.skip_uploaded)) :
                    \E chosen_ \in { session_pick(a.session_dir, got.rows, a.ranges, rng,
                                                  a.no_overlap, a.skip_uploaded) } :
                        /\ pool' = CollectFrom(a.session_dir, got.rows, 1, a.skip_uploaded)
                        /\ chosen' = chosen_
                        /\ pc' = "commit" /\ status' = "running"
                        /\ todo' = << [op |-> "mark", file |-> a.session_dir,
                                       picked_at |-> now] >>
                                   \o (IF a.enqueue
                                       THEN AppendSteps(SessionRowsOut(chosen_, a, now))
                                       ELSE << >>)
    /\ UNCHANGED <<ledger, event_queue, picked_before>>
    /\ UNCHANGED <<ioVars, buildVars, calcVars, pipeVars>>

\* the next write of the run: write_jsonl_atomic of one ledger, or one
\* append_jsonl; after the last one main() returns
CommitStep ==
    /\ pc = "commit" /\ todo # << >>
    /\ LET step == Head(todo)
       IN  IF step.op = "mark"
           THEN /\ ledger' = [ledger EXCEPT ![step.file] =
                                MarkedRows(ledger[step.file], IdxsOf(chosen, step.file),
                                           step.picked_at)]
                /\ UNCHANGED event_queue
           ELSE /\ event_queue' = Append(event_queue, step.line)
                /\ UNCHANGED ledger
    /\ todo' = Tail(todo)
    /\ IF Tail(todo) = << >>
       THEN pc' = "done" /\ status' = "ok"
       ELSE UNCHANGED <<pc, status>>
    /\ UNCHANGED <<args, pool, chosen, picked_before>>
    /\ UNCHANGED <<ioVars, buildVars, calcVars, pipeVars>>

\* the process is killed between two writes: what it wrote stays
Crash ==
    /\ pc = "commit"
    /\ pc' = "done"
    /\ status' = "crashed"
    /\ todo' = << >>
    /\ UNCHANGED <<ledger, event_queue, args, pool, chosen, picked_before>>
    /\ UNCHANGED <<ioVars, buildVars, calcVars, pipeVars>>

\* two ledgers of two rows for the first session, the queue empty or not
InitCommit ==
    /\ \E first \in { << Row(0, 20, 10), Row(10, 30, 15) >>,
                      << Row(0, 20, 10), Row(20, 40, 10) >> } :
          ledger = [s \in Sessions |-> IF s = "s1" THEN first ELSE OtherLedger]
    /\ event_queue \in StartQueues
    /\ pc = "idle"
    /\ args = NoArgs
    /\ pool = << >>
    /\ chosen = << >>
    /\ status = "none"
    /\ picked_before = {}
    /\ todo = << >>
    /\ IoIdle
    /\ BuildIdle
    /\ CalcIdle
    /\ PipeIdle

NextCommit == PickerStart \/ SessionPickStart \/ CommitStep \/ Crash \/ PickerExit \/ PipelineRun

SpecCommit == InitCommit /\ [][NextCommit]_vars

--------------------------------------------------------------------------
(* run_event_queue_pipeline_yolo_win.py *)

MaxPipeItems == 3   \* lines in the event queue when the pipelines start
MaxPipeRuns == 1    \* pipeline runs looked at, one after the other

\* a line of the event queue, as to_event_row writes it
EventOf(start_abs, end_abs) ==
    to_event_row([session_dir |-> "s1", start_abs |-> start_abs, end_abs |-> end_abs,
                  motion |-> 10, pick_reason |-> ""], 1080, "yolo_win")

PipeItemChoices == { EventOf(0, 20), EventOf(20, 40) }

\* the work item main() makes up for --event-dir
ManualItem == EventOf(300, 320)

PipeArgChoices ==
    [max : {1, 2}, event_dir : {"", "missing", "present"},
     review_before_api : BOOLEAN, no_api : BOOLEAN]

\* how the loop body can end for one item: the four failures that put the
\* item on retry_items, the two review actions, the skip of a video that
\* exists, the success, and an exception that leaves the loop
FailOutcomes == { "export_failed", "api_failed", "decision_missing", "render_failed" }

Outcomes(a) ==
    { "export_failed", "decision_missing", "render_failed", "skipped", "ok", "exception" }
    \cup (IF a.review_before_api THEN { "defer", "reject" } ELSE {})
    \cup (IF a.no_api THEN {} ELSE { "api_failed" })

\* lines[:n] and lines[n:] for n >= 0
Take(lines, n) == SubSeq(lines, 1, Min(n, Len(lines)))

Drop(lines, n) == SubSeq(lines, Min(n, Len(lines)) + 1, Len(lines))

\* new_queue without the items to retry
NewQueue_RemOnly(retry_items, rem_lines) == rem_lines

\* new_queue = retry_items + rem_lines
NewQueue(retry_items, rem_lines) == retry_items \o rem_lines

\* main() from parse_args to the start of the loop: the lock file is created
\* with O_EXCL; the returns for a missing --event-dir and for an empty queue
\* come before the try block whose finally removes the lock
PipeStart ==
    /\ pipe.pc = "idle"
    /\ pipe.runs < MaxPipeRuns
    /\ \E a \in PipeArgChoices :
        IF pipe.lock
        THEN pipe' = [pipe EXCEPT !.pc = "done", !.args = a, !.exit = "lock_exists"]
        ELSE IF a.event_dir = "missing"
        THEN pipe' = [pipe EXCEPT !.pc = "done", !.args = a, !.lock = TRUE,
                                  !.exit = "event_dir_not_found"]
        ELSE IF a.event_dir = "present"
        THEN pipe' = [pipe EXCEPT !.pc = "work", !.args = a, !.lock = TRUE,
                                  !.queue_mode = FALSE, !.start_lines = event_queue,
                                  !.work_items = << ManualItem >>, !.rem_lines = << >>]
        ELSE IF event_queue = << >>
        THEN pipe' = [pipe EXCEPT !.pc = "done", !.args = a, !.lock = TRUE,
                                  !.exit = "queue_empty"]
        ELSE pipe' = [pipe EXCEPT !.pc = "work", !.args = a, !.lock = TRUE,
                                  !.queue_mode = TRUE, !.start_lines = event_queue,
                                  !.work_items = Take(event_queue, a.max),
                                  !.rem_lines = Drop(event_queue, a.max)]
    /\ UNCHANGED <<pickVars, ioVars, buildVars, calcVars>>

\* one pass of the loop over work_items; an exception leaves the try block
\* through finally, which removes the lock
PipeItem ==
    /\ pipe.pc = "work" /\ pipe.work_items # << >>
    /\ \E o \in Outcomes(pipe.args) :
        LET item == Head(pipe.work_items)
            next == [pipe EXCEPT !.work_items = Tail(pipe.work_items),
                                 !.outcomes = Append(pipe.outcomes, o)]
        IN  pipe' =
              CASE o = "exception" ->
                     [next EXCEPT !.pc = "done", !.lock = FALSE, !.exit = "exception"]
                [] o \in FailOutcomes ->
                     [next EXCEPT !.retry_items = Append(pipe.retry_items, item)]
                [] o = "defer" ->
                     [next EXCEPT !.deferred_queue =
                                     Append(pipe.deferred_queue, item.event_name)]
                [] o = "reject" ->
                     [next EXCEPT !.rejected_queue =
                                     Append(pipe.rejected_queue, item.event_name)]
                [] o = "ok" ->
                     [next EXCEPT !.upload_queue =
                                     Append(pipe.upload_queue, item.event_name)]
                [] o = "skipped" -> next
    /\ UNCHANGED <<pickVars, ioVars, buildVars, calcVars>>

\* after the loop: the queue is rewritten in queue mode, finally removes the
\* lock
PipeFinish ==
    /\ pipe.pc = "work" /\ pipe.work_items = << >>
    /\ event_queue' = IF pipe.queue_mode
                      THEN NewQueue(pipe.retry_items, pipe.rem_lines)
                      ELSE event_queue
    /\ pipe' = [pipe EXCEPT !.pc = "done", !.lock = FALSE, !.exit = "processed"]
    /\ UNCHANGED <<ledger, pc, args, pool, chosen, status, picked_before, todo>>
    /\ UNCHANGED <<ioVars, buildVars, calcVars>>

\* the process ends: the files outlive it
PipeExit ==
    /\ pipe.pc = "done"
    /\ pipe' = PipeRest(pipe.lock, pipe.runs + 1, pipe.upload_queue, pipe.deferred_queue,
                        pipe.rejected_queue)
    /\ UNCHANGED <<pickVars, ioVars, buildVars, calcVars>>

InitPipe ==
    /\ event_queue \in SeqsUpTo(PipeItemChoices, MaxPipeItems)
    /\ ledger = [s \in Sessions |-> << >>]
    /\ pc = "idle"
    /\ args = NoArgs
    /\ pool = << >>
    /\ chosen = << >>
    /\ status = "none"
    /\ picked_before = {}
    /\ todo = << >>
    /\ IoIdle
    /\ BuildIdle
    /\ CalcIdle
    /\ PipeIdle

NextPipe == PipeStart \/ PipeItem \/ PipeFinish \/ PipeExit

SpecPipe == InitPipe /\ [][NextPipe]_vars

--------------------------------------------------------------------------
(* build_candidates_win.py *)

CONF_MIN == 40          \* 0.40, in hundredths
BBOX_W_MIN == 50
BBOX_W_MAX == 210
WIN_SEC == 20
STRIDE_SEC == 20
HITS_MIN == 15
CUT_HEAD_SEC == 300
CUT_TAIL_SEC == 300

\* one line of raw_yolo.jsonl: a detection, or a second without one
Det(conf, x1, x2) == [conf |-> conf, bbox_xyxy |-> << x1, 100, x2, 300 >>]

NoDet == [conf |-> 0, bbox_xyxy |-> << >>]

LogNames == {"busy", "quiet", "short", "bad"}

LogSecs == 660          \* seconds of the longest log

\* the per-second logs the sessions can hold; "bad" has a line that is not
\* JSON after its well-formed lines.  The centers are multiples of 5 pixels.
RawLog(name) ==
    CASE name = "busy" ->
            [bad |-> FALSE,
             per |-> [t \in 0..659 |->
                        IF t \in 300..319
                        THEN (IF t % 2 = 0 THEN Det(90, 50, 150) ELSE Det(90, 60, 160))
                        ELSE IF t \in 320..339
                        THEN (IF t % 2 = 0 THEN Det(90, 50, 150) ELSE Det(90, 65, 165))
                        ELSE IF t \in 340..349 THEN Det(90, 50, 150)
                        ELSE NoDet]]
      [] name = "quiet" -> [bad |-> FALSE, per |-> [t \in 0..659 |-> Det(30, 50, 150)]]
      [] name = "short" -> [bad |-> FALSE, per |-> [t \in 0..399 |-> Det(90, 50, 150)]]
      [] name = "bad"   -> [bad |-> TRUE, per |-> [t \in 0..659 |-> Det(90, 50, 150)]]

\* load_per_sec: json.loads of a malformed line raises
load_per_sec(log) == [ok |-> ~log.bad, per |-> log.per]

reject_fullscreen(bb) ==
    \/ bb[4] >= 358
    \/ bb[2] <= 2
    \/ bb[4] - bb[2] >= 320
    \/ bb[3] - bb[1] >= 320

is_valid_det(obj) ==
    /\ obj.conf >= CONF_MIN
    /\ Len(obj.bbox_xyxy) = 4
    /\ ~reject_fullscreen(obj.bbox_xyxy)
    /\ obj.bbox_xyxy[3] - obj.bbox_xyxy[1] >= BBOX_W_MIN
    /\ obj.bbox_xyxy[3] - obj.bbox_xyxy[1] <= BBOX_W_MAX

cx_of(bb) == (bb[1] + bb[3]) \div 2

RECURSIVE InsertAsc(_, _)
InsertAsc(sorted, x) ==
    IF sorted = << >> THEN << x >>
    ELSE IF x < Head(sorted) THEN << x >> \o sorted
    ELSE << Head(sorted) >> \o InsertAsc(Tail(sorted), x)

RECURSIVE SortedAsc(_)
SortedAsc(seq) ==
    IF seq = << >> THEN << >> ELSE InsertAsc(SortedAsc(Tail(seq)), Head(seq))

\* pctl(vals, q) for q = q10 / 10 on a non-empty list: linear interpolation
\* between the order statistics around pos = q * (len - 1)
pctl(vals, q10) ==
    LET s     == SortedAsc(vals)
        pos10 == q10 * (Len(s) - 1)
        lo    == pos10 \div 10
        hi    == (pos10 + 9) \div 10
        frac  == pos10 - 10 * lo
    IN  IF Len(s) = 1 THEN s[1]
        ELSE IF lo = hi THEN s[lo + 1]
        ELSE (s[lo + 1] * (10 - frac) + s[hi + 1] * frac) \div 10

motion_p90_p10(cx_list) == pctl(cx_list, 9) - pctl(cx_list, 1)

\* the largest second of per in lo..hi, -1 when there is none
RECURSIVE LastSec(_, _, _)
LastSec(per, lo, hi) ==
    IF lo = hi THEN (IF lo \in DOMAIN per THEN lo ELSE -1)
    ELSE LET mid == (lo + hi) \div 2
             up  == LastSec(per, mid + 1, hi)
         IN  IF up >= 0 THEN up ELSE LastSec(per, lo, mid)

\* max(per.keys()) + 1; no log is longer than LogSecs seconds
infer_duration_sec(per) == LastSec(per, 0, LogSecs - 1) + 1

\* cx_list of the window that starts at start, in second order
RECURSIVE WindowCx(_, _, _)
WindowCx(per, t, stop) ==
    IF t >= stop THEN << >>
    ELSE (IF t \in DOMAIN per /\ is_valid_det(per[t])
          THEN << cx_of(per[t].bbox_xyxy) >> ELSE << >>)
         \o WindowCx(per, t + 1, stop)

BuiltRow(start, cx_list) ==
    [kind |-> "row", start_abs |-> start, end_abs |-> start + WIN_SEC,
     motion |-> motion_p90_p10(cx_list), hits |-> Len(cx_list),
     picked_at |-> NoStamp, pick_id |-> NoStamp, video_id |-> NoStamp]

\* WindowsFrom that steps by half a window
RECURSIVE WindowsFrom_HalfStride(_, _, _)
WindowsFrom_HalfStride(per, start, start_max) ==
    IF start > start_max THEN << >>
    ELSE LET cx_list == WindowCx(per, start, start + WIN_SEC)
         IN  (IF Len(cx_list) < HITS_MIN THEN << >>
              ELSE << BuiltRow(start, cx_list) >>)
             \o WindowsFrom_HalfStride(per, start + (STRIDE_SEC \div 2), start_max)

\* the loop of build_candidates over range(start_min, start_max + 1, STRIDE_SEC)
RECURSIVE WindowsFrom(_, _, _)
WindowsFrom(per, start, start_max) ==
    IF start > start_max THEN << >>
    ELSE LET cx_list == WindowCx(per, start, start + WIN_SEC)
         IN  (IF Len(cx_list) < HITS_MIN THEN << >>
              ELSE << BuiltRow(start, cx_list) >>)
             \o WindowsFrom(per, start + STRIDE_SEC, start_max)

\* build_candidates that scans up to the last full window of the log
build_candidates_NoTailCut(per, dur_sec) ==
    IF dur_sec <= 0 THEN << >>
    ELSE LET start_max == Max(0, dur_sec - WIN_SEC)
         IN  IF start_max < CUT_HEAD_SEC THEN << >>
             ELSE WindowsFrom(per, CUT_HEAD_SEC, start_max)

build_candidates(per, dur_sec) ==
    IF dur_sec <= 0 THEN << >>
    ELSE LET start_max == Max(0, dur_sec - CUT_TAIL_SEC - WIN_SEC)
         IN  IF start_max < CUT_HEAD_SEC THEN << >>
             ELSE WindowsFrom(per, CUT_HEAD_SEC, start_max)

\* BuildLoop that writes the ledgers in a dry run too
RECURSIVE BuildLoop_DryWrites(_, _, _, _)
BuildLoop_DryWrites(k, st, force, dry_run) ==
    IF k > Len(SessionOrder) THEN [st EXCEPT !.status = "done"]
    ELSE LET sess == SessionOrder[k]
             got  == load_per_sec(RawLog(raw[sess]))
             cands == build_candidates(got.per, infer_duration_sec(got.per))
         IN  IF sess \in st.exists /\ ~force
             THEN BuildLoop_DryWrites(k + 1, [st EXCEPT !.skipped = @ + 1], force, dry_run)
             ELSE IF ~got.ok THEN [st EXCEPT !.status = "error", !.failed = sess]
             ELSE BuildLoop_DryWrites(k + 1,
                                      [st EXCEPT !.ledger[sess] = cands,
                                                 !.exists = @ \cup {sess},
                                                 !.written = @ + 1],
                                      force, dry_run)

\* the loop of main() over the sorted sessions, from the k-th on; st is the
\* run so far.  An exception of load_per_sec ends the run where it is.
RECURSIVE BuildLoop(_, _, _, _)
BuildLoop(k, st, force, dry_run) ==
    IF k > Len(SessionOrder) THEN [st EXCEPT !.status = "done"]
    ELSE LET sess == SessionOrder[k]
             got  == load_per_sec(RawLog(raw[sess]))
             cands == build_candidates(got.per, infer_duration_sec(got.per))
         IN  IF sess \in st.exists /\ ~force
             THEN BuildLoop(k + 1, [st EXCEPT !.skipped = @ + 1], force, dry_run)
             ELSE IF ~got.ok THEN [st EXCEPT !.status = "error", !.failed = sess]
             ELSE IF dry_run THEN BuildLoop(k + 1, st, force, dry_run)
             ELSE BuildLoop(k + 1,
                            [st EXCEPT !.ledger[sess] = cands,
                                       !.exists = @ \cup {sess},
                                       !.written = @ + 1],
                            force, dry_run)

\* main() of build_candidates_win.py, from parse_args to its end
BuildMain ==
    /\ pc = "idle"
    /\ build.status = "none"
    /\ \E force \in BOOLEAN, dry_run \in BOOLEAN :
        \E st \in { BuildLoop(1, [ledger |-> ledger, exists |-> exists,
                                  status |-> "running", failed |-> "",
                                  written |-> 0, skipped |-> 0],
                              force, dry_run) } :
            /\ ledger' = st.ledger
            /\ exists' = st.exists
            /\ build' = [status |-> st.status, failed |-> st.failed,
                         force |-> force, dry_run |-> dry_run,
                         written |-> st.written, skipped |-> st.skipped,
                         had |-> exists]
    /\ UNCHANGED <<pc, args, pool, chosen, status, picked_before, event_queue, todo>>
    /\ UNCHANGED <<raw, ioVars, calcVars, pipeVars>>

\* the builder process ends: nothing but the files outlives it
BuildExit ==
    /\ build.status # "none"
    /\ build' = [status |-> "none"]
    /\ UNCHANGED <<pickVars, raw, exists, ioVars, calcVars, pipeVars>>

\* sessions with their per-second logs and no ledger yet
InitBuild ==
    /\ raw \in { r \in [Sessions -> LogNames] : r["s2"] \in {"busy", "bad"} }
    /\ exists = {}
    /\ build = [status |-> "none"]
    /\ ledger = [s \in Sessions |-> << >>]
    /\ pc = "idle"
    /\ args = NoArgs
    /\ pool = << >>
    /\ chosen = << >>
    /\ status = "none"
    /\ picked_before = {}
    /\ todo = << >>
    /\ event_queue = << >>
    /\ IoIdle
    /\ CalcIdle
    /\ PipeIdle

NextBuild == BuildMain \/ BuildExit \/ PickerMain \/ PickerExit \/ PipelineRun

SpecBuild == InitBuild /\ [][NextBuild]_vars

--------------------------------------------------------------------------
(* write_jsonl_atomic and dequeue_first_line, one file operation at a time *)

Writers == {"w1", "w2"}

\* picked_at of a writer's run
Stamp(p) ==
    IF p = "w1" THEN "2026-02-12T18:00:00+09:00" ELSE "2026-02-12T21:00:00+09:00"

FileLineChoices == { Row(0, 20, 10), Row(10, 30, 15), BlankLine }

QueueLineChoices == { "e1", "e2", "" }

NoProc ==
    [pc |-> "start", idxs |-> {}, snap |-> << >>, mem |-> << >>, fd |-> 0, pos |-> 0]

NoDrain ==
    [pc |-> "start", lines |-> << >>, first |-> "", remaining |-> << >>, pos |-> 0]

\* a write of one line at line offset k - 1 of a file; the gap that a write
\* past the end leaves is not JSON
WriteAt(content, k, line) ==
    IF k <= Len(content) THEN [content EXCEPT ![k] = line]
    ELSE content \o [i \in 1..(k - Len(content) - 1) |-> BadLine] \o << line >>

\* tmp.replace(p) that leaves the temporary name in place (a copy, not a move)
AfterReplace_KeepTmp(d) == [d EXCEPT !.ledger = d.tmp]

\* tmp.replace(p): the ledger path now names the temporary file
AfterReplace(d) == [d EXCEPT !.ledger = d.tmp, !.tmp = 0]

RECURSIVE NonEmptyLines(_)
NonEmptyLines(lines) ==
    IF lines = << >> THEN << >>
    ELSE (IF Head(lines) = "" THEN << >> ELSE << Head(lines) >>)
         \o NonEmptyLines(Tail(lines))

load_queue_lines(lines) == NonEmptyLines(lines)

\* main(): collect_candidates and the choice, up to the call of mark_picked
W_Collect(p) ==
    /\ proc[p].pc = "start"
    /\ LET got  == read_jsonl(fs[dir.ledger])
           elig == { i \in 1..Len(got.rows) : Eligible(got.rows[i], TRUE) }
       IN  IF ~got.ok THEN proc' = [proc EXCEPT ![p].pc = "failed"]
           ELSE IF elig = {} THEN proc' = [proc EXCEPT ![p].pc = "returned"]
           ELSE \E S \in (SUBSET elig) \ { {} } :
                   proc' = [proc EXCEPT ![p].pc = "chosen", ![p].idxs = S]
    /\ UNCHANGED <<pickVars, buildVars, calcVars, pipeVars, fs, dir, drain, origin, last_replace>>

\* mark_picked: read_jsonl(src) and the assignments to source_rows
W_Read(p) ==
    /\ proc[p].pc = "chosen"
    /\ LET got == read_jsonl(fs[dir.ledger])
       IN  IF ~got.ok \/ \E i \in proc[p].idxs : i > Len(got.rows)
           THEN proc' = [proc EXCEPT ![p].pc = "failed"]
           ELSE proc' = [proc EXCEPT ![p].pc = "marked",
                                     ![p].snap = got.rows,
                                     ![p].mem = MarkedRows(fs[dir.ledger], proc[p].idxs,
                                                           Stamp(p))]
    /\ UNCHANGED <<pickVars, buildVars, calcVars, pipeVars, fs, dir, drain, origin, last_replace>>

\* write_jsonl_atomic: tmp.open("w") creates the file or empties it
W_OpenTmp(p) ==
    /\ proc[p].pc = "marked"
    /\ IF dir.tmp = 0
       THEN /\ fs' = Append(fs, << >>)
            /\ dir' = [dir EXCEPT !.tmp = Len(fs) + 1]
            /\ proc' = [proc EXCEPT ![p].pc = "writing", ![p].fd = Len(fs) + 1,
                                    ![p].pos = 0]
       ELSE /\ fs' = [fs EXCEPT ![dir.tmp] = << >>]
            /\ dir' = dir
            /\ proc' = [proc EXCEPT ![p].pc = "writing", ![p].fd = dir.tmp,
                                    ![p].pos = 0]
    /\ UNCHANGED <<pickVars, buildVars, calcVars, pipeVars, drain, origin, last_replace>>

\* write_jsonl_atomic: one f.write reaches the file
W_WriteRow(p) ==
    /\ proc[p].pc = "writing"
    /\ proc[p].pos < Len(proc[p].mem)
    /\ fs' = [fs EXCEPT ![proc[p].fd] =
                 WriteAt(@, proc[p].pos + 1, proc[p].mem[proc[p].pos + 1])]
    /\ proc' = [proc EXCEPT ![p].pos = @ + 1]
    /\ UNCHANGED <<pickVars, buildVars, calcVars, pipeVars, dir, drain, origin, last_replace>>

\* write_jsonl_atomic: the with-block closes the temporary file
W_Close(p) ==
    /\ proc[p].pc = "writing"
    /\ proc[p].pos = Len(proc[p].mem)
    /\ proc' = [proc EXCEPT ![p].pc = "closed"]
    /\ UNCHANGED <<pickVars, buildVars, calcVars, pipeVars, fs, dir, drain, origin, last_replace>>

\* write_jsonl_atomic: tmp.replace(p); FileNotFoundError when tmp is gone
W_Replace(p) ==
    /\ proc[p].pc = "closed"
    /\ IF dir.tmp = 0
       THEN /\ proc' = [proc EXCEPT ![p].pc = "failed"]
            /\ UNCHANGED <<dir, last_replace>>
       ELSE /\ dir' = AfterReplace(dir)
            /\ proc' = [proc EXCEPT ![p].pc = "done"]
            /\ last_replace' = p
    /\ UNCHANGED <<pickVars, buildVars, calcVars, pipeVars, fs, drain, origin>>

\* the writer process dies
W_Crash(p) ==
    /\ proc[p].pc \in {"chosen", "marked", "writing", "closed"}
    /\ proc' = [proc EXCEPT ![p].pc = "crashed"]
    /\ UNCHANGED <<pickVars, buildVars, calcVars, pipeVars, fs, dir, drain, origin, last_replace>>

\* dequeue_first_line: load_queue_lines, first and remaining
D_Load ==
    /\ drain.pc = "start"
    /\ LET lines == load_queue_lines(fs[dir.queue])
       IN  IF lines = << >> THEN drain' = [drain EXCEPT !.pc = "returned"]
           ELSE drain' = [drain EXCEPT !.pc = "loaded", !.lines = lines,
                                       !.first = lines[1], !.remaining = Tail(lines)]
    /\ UNCHANGED <<pickVars, buildVars, calcVars, pipeVars, fs, dir, proc, origin, last_replace>>

\* dequeue_first_line: open(queue_path, "w") empties the queue file itself
D_Open ==
    /\ drain.pc = "loaded"
    /\ fs' = [fs EXCEPT ![dir.queue] = << >>]
    /\ drain' = [drain EXCEPT !.pc = "writing", !.pos = 0]
    /\ UNCHANGED <<pickVars, buildVars, calcVars, pipeVars, dir, proc, origin, last_replace>>

\* dequeue_first_line: one f.write reaches the file
D_WriteLine ==
    /\ drain.pc = "writing"
    /\ drain.pos < Len(drain.remaining)
    /\ fs' = [fs EXCEPT ![dir.queue] = Append(@, drain.remaining[drain.pos + 1])]
    /\ drain' = [drain EXCEPT !.pos = @ + 1]
    /\ UNCHANGED <<pickVars, buildVars, calcVars, pipeVars, dir, proc, origin, last_replace>>

\* dequeue_first_line: the with-block closes the queue file
D_Close ==
    /\ drain.pc = "writing"
    /\ drain.pos = Len(drain.remaining)
    /\ drain' = [drain EXCEPT !.pc = "done"]
    /\ UNCHANGED <<pickVars, buildVars, calcVars, pipeVars, fs, dir, proc, origin, last_replace>>

\* the uploader process dies
D_Crash ==
    /\ drain.pc \in {"loaded", "writing"}
    /\ drain' = [drain EXCEPT !.pc = "crashed"]
    /\ UNCHANGED <<pickVars, buildVars, calcVars, pipeVars, fs, dir, proc, origin, last_replace>>

\* the picker's variables while the file operations are looked at
PickIdle ==
    /\ ledger = [s \in Sessions |-> << >>]
    /\ pc = "idle"
    /\ args = NoArgs
    /\ pool = << >>
    /\ chosen = << >>
    /\ status = "none"
    /\ picked_before = {}
    /\ todo = << >>
    /\ event_queue = << >>
    /\ BuildIdle
    /\ CalcIdle
    /\ PipeIdle

\* one picker marking one ledger, one uploader draining the queue
InitAtomic ==
    /\ PickIdle
    /\ \E l \in SeqsUpTo(FileLineChoices \cup { BadLine }, MaxRows), q \in SeqsUpTo(QueueLineChoices, MaxQueue) :
          /\ fs = << l, q >>
          /\ origin = [ledger |-> l, queue |-> q]
    /\ dir = [ledger |-> 1, tmp |-> 0, queue |-> 2]
    /\ proc = [p \in {"w1"} |-> NoProc]
    /\ drain = NoDrain
    /\ last_replace = "none"

NextAtomic ==
    \/ W_Collect("w1") \/ W_Read("w1") \/ W_OpenTmp("w1") \/ W_WriteRow("w1")
    \/ W_Close("w1") \/ W_Replace("w1") \/ W_Crash("w1")
    \/ D_Load \/ D_Open \/ D_WriteLine \/ D_Close \/ D_Crash

SpecAtomic == InitAtomic /\ [][NextAtomic]_vars

\* two pickers marking the same ledger
InitConc ==
    /\ PickIdle
    /\ \E l \in SeqsUpTo(FileLineChoices \ { BlankLine }, MaxRows) :
          /\ fs = << l, << >> >>
          /\ origin = [ledger |-> l, queue |-> << >>]
    /\ dir = [ledger |-> 1, tmp |-> 0, queue |-> 2]
    /\ proc = [p \in Writers |-> NoProc]
    /\ drain = [pc |-> "none"]
    /\ last_replace = "none"

NextConc ==
    \E p \in Writers :
       \/ W_Collect(p) \/ W_Read(p) \/ W_OpenTmp(p) \/ W_WriteRow(p)
       \/ W_Close(p) \/ W_Replace(p)

SpecConc == InitConc /\ [][NextConc]_vars

--------------------------------------------------------------------------
(* Pure functions: the event name and analyze_y2_events.py *)

MaxSecs == 5    \* seconds a metric log spans
MaxSegs == 3    \* segments in a list

\* parse_event_abs_seconds: int() of one part; <<>> stands for the ValueError.
\* int() takes decimal digits (a sign, blanks and single underscores between
\* digits do not occur in the names looked at)
RECURSIVE IntOf(_, _)
IntOf(chars, acc) ==
    IF chars = << >> THEN << acc >>
    ELSE IF \E d \in 1..10 : DigitChars[d] = Head(chars)
    THEN IntOf(Tail(chars),
               10 * acc + (CHOOSE d \in 1..10 : DigitChars[d] = Head(chars)) - 1)
    ELSE << >>

\* event_name.split("_", 1), then int() of both parts; <<>> is the return
\* value None
parse_event_abs_seconds(event_name) ==
    LET cut == { i \in 1..Len(event_name) : event_name[i] = "_" }
    IN  IF cut = {} THEN << >>
        ELSE LET i == CHOOSE j \in cut : \A k \in cut : j <= k
                 a == SubSeq(event_name, 1, i - 1)
                 b == SubSeq(event_name, i + 1, Len(event_name))
             IN  IF a = << >> \/ b = << >> \/ IntOf(a, 0) = << >> \/ IntOf(b, 0) = << >>
                 THEN << >>
                 ELSE << IntOf(a, 0)[1], IntOf(b, 0)[1] >>

\* int(ev_name.split("_")[0]) of the pipeline; <<>> is the ValueError
pipeline_start_abs(ev_name) ==
    LET cut == { i \in 1..Len(ev_name) : ev_name[i] = "_" }
        first == IF cut = {} THEN ev_name
                 ELSE SubSeq(ev_name, 1, (CHOOSE j \in cut : \A k \in cut : j <= k) - 1)
    IN  IF first = << >> THEN << >> ELSE IntOf(first, 0)

\* compute_delta: (sec, meanY, deltaY), deltaY against the row before
compute_delta(rows) ==
    [i \in 1..Len(rows) |->
        [sec |-> rows[i].sec, y |-> rows[i].y,
         dy |-> IF i = 1 THEN 0 ELSE rows[i].y - rows[i - 1].y]]

Abs(x) == IF x < 0 THEN -x ELSE x

NoSec == -1     \* None

\* DetectLoop that forgets the run still open at the end of the rows
RECURSIVE DetectLoop_NoTail(_, _, _, _, _, _, _)
DetectLoop_NoTail(delta_rows, k, run_start, last_sec, hits, dy_threshold, min_len_sec) ==
    IF k > Len(delta_rows) THEN hits
    ELSE LET sec == delta_rows[k].sec
             is_move == Abs(delta_rows[k].dy) >= dy_threshold
         IN  IF is_move
             THEN DetectLoop_NoTail(delta_rows, k + 1,
                                    IF run_start = NoSec THEN sec ELSE run_start, sec,
                                    hits, dy_threshold, min_len_sec)
             ELSE IF run_start # NoSec
             THEN DetectLoop_NoTail(delta_rows, k + 1, NoSec, NoSec,
                                    IF (last_sec + 1) - run_start >= min_len_sec
                                    THEN Append(hits, << run_start, last_sec + 1 >>)
                                    ELSE hits,
                                    dy_threshold, min_len_sec)
             ELSE DetectLoop_NoTail(delta_rows, k + 1, run_start, last_sec, hits,
                                    dy_threshold, min_len_sec)

\* the loop of detect_hits_4sec over moving, and the test after it
RECURSIVE DetectLoop(_, _, _, _, _, _, _)
DetectLoop(delta_rows, k, run_start, last_sec, hits, dy_threshold, min_len_sec) ==
    IF k > Len(delta_rows)
    THEN IF run_start # NoSec /\ (last_sec + 1) - run_start >= min_len_sec
         THEN Append(hits, << run_start, last_sec + 1 >>)
         ELSE hits
    ELSE LET sec == delta_rows[k].sec
             is_move == Abs(delta_rows[k].dy) >= dy_threshold
         IN  IF is_move
             THEN DetectLoop(delta_rows, k + 1,
                             IF run_start = NoSec THEN sec ELSE run_start, sec,
                             hits, dy_threshold, min_len_sec)
             ELSE IF run_start # NoSec
             THEN DetectLoop(delta_rows, k + 1, NoSec, NoSec,
                             IF (last_sec + 1) - run_start >= min_len_sec
                             THEN Append(hits, << run_start, last_sec + 1 >>)
                             ELSE hits,
                             dy_threshold, min_len_sec)
             ELSE DetectLoop(delta_rows, k + 1, run_start, last_sec, hits,
                             dy_threshold, min_len_sec)

detect_hits_4sec(delta_rows, dy_threshold, min_len_sec) ==
    DetectLoop(delta_rows, 1, NoSec, NoSec, << >>, dy_threshold, min_len_sec)

\* tuple order of Python: by start, then by end
SegLess(a, b) == a[1] < b[1] \/ (a[1] = b[1] /\ a[2] < b[2])

RECURSIVE InsertSeg(_, _)
InsertSeg(sorted, x) ==
    IF sorted = << >> THEN << x >>
    ELSE IF SegLess(x, Head(sorted)) THEN << x >> \o sorted
    ELSE << Head(sorted) >> \o InsertSeg(Tail(sorted), x)

\* sorted(segs)
RECURSIVE SortedSegs(_)
SortedSegs(segs) ==
    IF segs = << >> THEN << >> ELSE InsertSeg(SortedSegs(Tail(segs)), Head(segs))

\* MergeLoop that merges only segments that overlap, not those that touch
RECURSIVE MergeLoop_NoTouch(_, _, _)
MergeLoop_NoTouch(segs, k, merged) ==
    IF k > Len(segs) THEN merged
    ELSE LET last == merged[Len(merged)]
         IN  IF segs[k][1] < last[2]
             THEN MergeLoop_NoTouch(segs, k + 1,
                                    [merged EXCEPT ![Len(merged)] =
                                        << last[1], Max(last[2], segs[k][2]) >>])
             ELSE MergeLoop_NoTouch(segs, k + 1, Append(merged, segs[k]))

\* the loop of merge_overlaps over segs[1:]
RECURSIVE MergeLoop(_, _, _)
MergeLoop(segs, k, merged) ==
    IF k > Len(segs) THEN merged
    ELSE LET last == merged[Len(merged)]
         IN  IF segs[k][1] <= last[2]
             THEN MergeLoop(segs, k + 1,
                            [merged EXCEPT ![Len(merged)] =
                                << last[1], Max(last[2], segs[k][2]) >>])
             ELSE MergeLoop(segs, k + 1, Append(merged, segs[k]))

merge_overlaps(segs) ==
    IF segs = << >> THEN << >>
    ELSE LET s == SortedSegs(segs) IN MergeLoop(s, 2, << s[1] >>)

\* CapLoop that measures the gap from the end before the cut
RECURSIVE CapLoop_GapFromUncutEnd(_, _, _, _, _, _)
CapLoop_GapFromUncutEnd(events, k, out, last_end, max_len, min_gap) ==
    IF k > Len(events) THEN out
    ELSE LET s == events[k][1]
             e == IF events[k][2] - s > max_len THEN s + max_len ELSE events[k][2]
         IN  IF out = << >> \/ s >= last_end + min_gap
             THEN CapLoop_GapFromUncutEnd(events, k + 1, Append(out, << s, e >>),
                                          events[k][2], max_len, min_gap)
             ELSE CapLoop_GapFromUncutEnd(events, k + 1, out, last_end, max_len, min_gap)

\* the loop of cap_and_interval over sorted(events); out = <<>> is
\* last_end = None
RECURSIVE CapLoop(_, _, _, _, _, _)
CapLoop(events, k, out, last_end, max_len, min_gap) ==
    IF k > Len(events) THEN out
    ELSE LET s == events[k][1]
             e == IF events[k][2] - s > max_len THEN s + max_len ELSE events[k][2]
         IN  IF out = << >> \/ s >= last_end + min_gap
             THEN CapLoop(events, k + 1, Append(out, << s, e >>), e, max_len, min_gap)
             ELSE CapLoop(events, k + 1, out, last_end, max_len, min_gap)

cap_and_interval(events, max_len, min_gap) ==
    CapLoop(SortedSegs(events), 1, << >>, NoSec, max_len, min_gap)

\* int(duration_sec); a duration is held in tenths of a second
IntOfDuration(duration_sec) == duration_sec \div 10

\* hits_to_segments_15s
hits_to_segments_15s(hits, pre_sec, seg_len_sec, duration_sec) ==
    LET seg(h) == << Max(h[1] - pre_sec, 0),
                     Min(Max(h[1] - pre_sec, 0) + seg_len_sec, IntOfDuration(duration_sec)) >>
    IN  SelectSeq([i \in 1..Len(hits) |-> seg(hits[i])], LAMBDA s : s[2] > s[1])

\* apply_op_ed_exclusion that looks at the head zone only
apply_op_ed_exclusion_HeadOnly(events, duration_sec, op_sec, ed_sec) ==
    SelectSeq(events, LAMBDA ev : ~(ev[1] < op_sec))

\* apply_op_ed_exclusion
apply_op_ed_exclusion(events, duration_sec, op_sec, ed_sec) ==
    LET dur == IntOfDuration(duration_sec)
        ed_start == Max(dur - ed_sec, 0)
    IN  SelectSeq(events, LAMBDA ev : ~(ev[1] < op_sec) /\ ~(ev[2] > ed_start))

\* The calls looked at.  A call is taken from a bounded set of arguments and
\* runs once.

MaxHits == 2    \* hit intervals of one analysis

HitPoints == 0..7

\* what detect_hits_4sec returns: intervals in order, a second apart at least
HitListChoices ==
    { h \in SeqsUpTo({ iv \in HitPoints \X HitPoints : iv[1] < iv[2] }, MaxHits) :
        \A i \in 1..(Len(h) - 1) : h[i][2] < h[i + 1][1] }

\* the durations ffprobe reports, in tenths of a second
DurationChoices == { 65, 80 }

\* the lengths of the raw logs looked at, around CUT_HEAD_SEC + CUT_TAIL_SEC
\* + WIN_SEC
LogDurChoices == { 0, 400, 619, 620, 639, 640, 660 }

\* the seconds of every 20 that hold a valid detection
LogFillChoices == { 14, 15, 20 }

\* a raw log of dur seconds; the first fill seconds of every 20 hold a valid
\* detection, whose center moves between 100 and 110
FilledLog(dur, fill) ==
    [t \in 0..(dur - 1) |->
        IF t % 20 < fill
        THEN (IF t % 2 = 0 THEN Det(90, 50, 150) ELSE Det(90, 60, 160))
        ELSE NoDet]

AnalyzeArgChoices ==
    [hits : HitListChoices, pre_sec : {0, 1}, seg_len : {2, 3},
     duration : DurationChoices, op : {0, 2}, ed : {0, 2},
     max_event : {2, 60}, gap : {0, 2}]

\* absolute seconds of a row, some of them longer than five digits
AbsChoices == { 0, 7, 300, 99999, 100000, 1234567 }

MeanYChoices == { 0, 5, 6 }

DyThresholdChoices == { 3 }

MinLenChoices == { 1, 2, 3 }

\* the rows of parse_showinfo_meanY_per_sec: one per second seen, by second
RECURSIVE AscSeq(_)
AscSeq(S) ==
    IF S = {} THEN << >>
    ELSE LET lo == CHOOSE x \in S : \A y \in S : x <= y
         IN  << lo >> \o AscSeq(S \ {lo})

MeanRowsOver(secs) ==
    { [i \in 1..Cardinality(secs) |-> [sec |-> AscSeq(secs)[i], y |-> ys[i]]] :
        ys \in [1..Cardinality(secs) -> MeanYChoices] }

MeanRows(ys) == [i \in 1..Len(ys) |-> [sec |-> i - 1, y |-> ys[i]]]

MeanRowChoices ==
    UNION { MeanRowsOver(secs) : secs \in SUBSET (0..(MaxSecs - 1)) }
    \cup { MeanRows(<< 100, 100, 100, 106, 110, 108, 100, 100 >>),
           MeanRows(<< 0, 0, 0, 5, 9, 13, 17, 17, 17 >>) }

SegPoints == 0..4

\* hits_to_segments_15s keeps a segment only if end > start
SegChoices == { seg \in SegPoints \X SegPoints : seg[1] < seg[2] }

SegListChoices ==
    SeqsUpTo(SegChoices, MaxSegs)
    \cup { << << 5, 15 >>, << 10, 20 >>, << 25, 30 >> >>, << << 0, 70 >>, << 80, 85 >> >> }

MaxLenChoices == { 0, 2, 60 }

MinGapChoices == { 0, 1, 60 }

\* ---- the float arithmetic of pctl and motion_p90_p10 ----
\* Python's float is IEEE 754 binary64: every +, - and * gives the exact
\* result rounded to 53 significant bits, ties to the even neighbour.  The
\* significands do not fit the integers of TLC, so a natural number
\* is held as its bits, the least significant first, without leading zeros.

Prec == 53

\* b without its leading zeros
BTrim(b) ==
    LET top == CHOOSE i \in 0..Len(b) :
                   (i = 0 \/ b[i] = 1) /\ \A j \in (i + 1)..Len(b) : b[j] = 0
    IN  SubSeq(b, 1, top)

RECURSIVE BOf(_)
BOf(n) == IF n = 0 THEN << >> ELSE << n % 2 >> \o BOf(n \div 2)

RECURSIVE BInt(_)
BInt(b) == IF b = << >> THEN 0 ELSE Head(b) + 2 * BInt(Tail(b))

BBit(b, i) == IF i \in 1..Len(b) THEN b[i] ELSE 0

\* the bits lo..hi of a + b + carry, and the carry out of bit hi as the last
\* element; the range is halved so that the recursion stays shallow
RECURSIVE BAddRange(_, _, _, _, _)
BAddRange(a, b, lo, hi, carry) ==
    IF lo = hi
    THEN LET t == BBit(a, lo) + BBit(b, lo) + carry IN << t % 2, t \div 2 >>
    ELSE LET mid  == (lo + hi) \div 2
             low  == BAddRange(a, b, lo, mid, carry)
             high == BAddRange(a, b, mid + 1, hi, low[Len(low)])
         IN  SubSeq(low, 1, Len(low) - 1) \o high

BAdd(a, b) ==
    IF a = << >> THEN b
    ELSE IF b = << >> THEN a
    ELSE BTrim(BAddRange(a, b, 1, Max(Len(a), Len(b)), 0))

\* the bits lo..hi of a - b - borrow, and the borrow out of bit hi
RECURSIVE BSubRange(_, _, _, _, _)
BSubRange(a, b, lo, hi, borrow) ==
    IF lo = hi
    THEN LET t == BBit(a, lo) - BBit(b, lo) - borrow
         IN  << t % 2, IF t < 0 THEN 1 ELSE 0 >>
    ELSE LET mid  == (lo + hi) \div 2
             low  == BSubRange(a, b, lo, mid, borrow)
             high == BSubRange(a, b, mid + 1, hi, low[Len(low)])
         IN  SubSeq(low, 1, Len(low) - 1) \o high

\* a - b for a >= b
BSub(a, b) ==
    IF b = << >> THEN a
    ELSE LET d == BSubRange(a, b, 1, Len(a), 0) IN BTrim(SubSeq(d, 1, Len(d) - 1))

BLess(a, b) ==
    IF Len(a) # Len(b) THEN Len(a) < Len(b)
    ELSE \E i \in 1..Len(a) : a[i] < b[i] /\ \A j \in (i + 1)..Len(a) : a[j] = b[j]

\* a * 2^k
BShl(a, k) == IF a = << >> THEN << >> ELSE [i \in 1..k |-> 0] \o a

\* a times the bits lo..hi of b, each at its place
RECURSIVE BMulRange(_, _, _, _)
BMulRange(a, b, lo, hi) ==
    IF lo = hi THEN (IF b[lo] = 1 THEN BShl(a, lo - 1) ELSE << >>)
    ELSE LET mid == (lo + hi) \div 2
         IN  BAdd(BMulRange(a, b, lo, mid), BMulRange(a, b, mid + 1, hi))

BMul(a, b) == IF a = << >> \/ b = << >> THEN << >> ELSE BMulRange(a, b, 1, Len(b))

\* the number written with the hexadecimal digits ds, the first digit the
\* most significant
RECURSIVE BHex(_)
BHex(ds) ==
    IF ds = << >> THEN << >>
    ELSE LET d == ds[Len(ds)]
         IN  BTrim(<< d % 2, (d \div 2) % 2, (d \div 4) % 2, d \div 8 >>
                   \o BHex(SubSeq(ds, 1, Len(ds) - 1)))

\* A float is (-1)^s * m * 2^e with m of exactly Prec bits, or m = << >>
\* for zero.  The exponents of the values met here are far from the ends of
\* the binary64 range, so there is no overflow and no subnormal number.
F64Zero == [s |-> 0, m |-> << >>, e |-> 0]

\* the float nearest to (-1)^s * M * 2^E, ties to even
F64Round(s, M, E) ==
    LET n == Len(M)
    IN  IF n = 0 THEN [s |-> s, m |-> << >>, e |-> 0]
        ELSE IF n <= Prec
        THEN [s |-> s, m |-> BShl(M, Prec - n), e |-> E - (Prec - n)]
        ELSE LET k      == n - Prec
                 q      == SubSeq(M, k + 1, n)
                 sticky == \E i \in 1..(k - 1) : M[i] = 1
                 up     == M[k] = 1 /\ (sticky \/ q[1] = 1)
                 r      == IF up THEN BAdd(q, << 1 >>) ELSE q
             IN  IF Len(r) > Prec
                 THEN [s |-> s, m |-> SubSeq(r, 2, Len(r)), e |-> E + k + 1]
                 ELSE [s |-> s, m |-> r, e |-> E + k]

\* float(n) of an int n
F64Of(n) == F64Round(IF n < 0 THEN 1 ELSE 0, BOf(Abs(n)), 0)

FNeg(x) == [x EXCEPT !.s = 1 - x.s]

FMul(x, y) == F64Round((x.s + y.s) % 2, BMul(x.m, y.m), x.e + y.e)

FAdd(x, y) ==
    IF x.m = << >>
    THEN (IF y.m = << >> THEN [s |-> x.s * y.s, m |-> << >>, e |-> 0] ELSE y)
    ELSE IF y.m = << >> THEN x
    ELSE LET e == Min(x.e, y.e)
             X == BShl(x.m, x.e - e)
             Y == BShl(y.m, y.e - e)
         IN  IF x.s = y.s THEN F64Round(x.s, BAdd(X, Y), e)
             ELSE IF X = Y THEN F64Zero
             ELSE IF BLess(X, Y) THEN F64Round(y.s, BSub(Y, X), e)
             ELSE F64Round(x.s, BSub(X, Y), e)

FSub(x, y) == FAdd(x, FNeg(y))

FIsZero(x) == x.m = << >>

FNegative(x) == x.m # << >> /\ x.s = 1

FLess(x, y) == FNegative(FSub(x, y))

\* math.floor(x) and math.ceil(x) as ints, for x >= 0
FFloor(x) ==
    IF x.m = << >> \/ -x.e >= Prec THEN 0
    ELSE IF x.e >= 0 THEN BInt(BShl(x.m, x.e))
    ELSE BInt(SubSeq(x.m, 1 - x.e, Prec))

FCeil(x) ==
    IF x.m = << >> THEN 0
    ELSE IF x.e >= 0 THEN FFloor(x)
    ELSE FFloor(x) + (IF \E i \in 1..Min(-x.e, Prec) : x.m[i] = 1 THEN 1 ELSE 0)

\* the literals 0.10 and 0.90: 0x1.999999999999ap-4 and 0x1.ccccccccccccdp-1
Q10 == [s |-> 0, m |-> BHex(<< 1, 9, 9, 9, 9, 9, 9, 9, 9, 9, 9, 9, 9, 10 >>), e |-> -56]

Q90 == [s |-> 0, m |-> BHex(<< 1, 12, 12, 12, 12, 12, 12, 12, 12, 12, 12, 12, 12, 13 >>), e |-> -53]

RECURSIVE FInsertAsc(_, _)
FInsertAsc(sorted, x) ==
    IF sorted = << >> THEN << x >>
    ELSE IF FLess(x, Head(sorted)) THEN << x >> \o sorted
    ELSE << Head(sorted) >> \o FInsertAsc(Tail(sorted), x)

\* sorted(vals)
RECURSIVE FSorted(_)
FSorted(seq) ==
    IF seq = << >> THEN << >> ELSE FInsertAsc(FSorted(Tail(seq)), Head(seq))

\* pctl(vals, q) on a list that is not empty, in the floats of the program
pctl_float(vals, q) ==
    LET s    == FSorted(vals)
        pos  == FMul(q, F64Of(Len(s) - 1))
        lo   == FFloor(pos)
        hi   == FCeil(pos)
        frac == FSub(pos, F64Of(lo))
    IN  IF Len(s) = 1 THEN s[1]
        ELSE IF lo = hi THEN s[lo + 1]
        ELSE FAdd(FMul(s[lo + 1], FSub(F64Of(1), frac)), FMul(s[hi + 1], frac))

\* float(p90 - p10)
motion_float(cx_list) == FSub(pctl_float(cx_list, Q90), pctl_float(cx_list, Q10))

\* the centers are halves of whole pixels: cx_of gives (x1 + x2) / 2.0
HalfOf(c2) == F64Round(0, BOf(c2), -1)

MaxCenters == 5

ExampleCenters == << 20, 40, 60, 80, 100 >>   \* [10, 20, 30, 40, 50]

EqualCenterChoices == { 6, 14, 20, 1921 }   \* 3, 7, 10 and 960.5

CenterListChoices ==
    { ExampleCenters, << 100, 20, 60, 40, 80 >> }
    \cup { [i \in 1..n |-> c] : c \in EqualCenterChoices, n \in 1..MaxCenters }
    \cup UNION { [1..n -> {20, 21, 60}] : n \in 2..3 }

InitCalc ==
    /\ calc \in
          [fn : {"event_name"}, step : {0},
           in : [session_dir : {"s1"}, start_abs : AbsChoices, end_abs : AbsChoices,
                 motion : {10}, pick_reason : {""}]]
          \cup [fn : {"detect_hits_4sec"}, step : {0},
                in : [rows : MeanRowChoices, dy_threshold : DyThresholdChoices,
                      min_len_sec : MinLenChoices]]
          \cup [fn : {"merge_overlaps"}, step : {0}, in : [segs : SegListChoices]]
          \cup [fn : {"analyze"}, step : {0}, in : AnalyzeArgChoices]
          \cup [fn : {"build_candidates"}, step : {0},
                in : [dur : LogDurChoices, fill : LogFillChoices]]
          \cup [fn : {"motion_p90_p10"}, step : {0}, in : [cx2 : CenterListChoices]]
          \cup [fn : {"cap_and_interval"}, step : {0},
                in : [events : SegListChoices, max_len : MaxLenChoices,
                      min_gap : MinGapChoices]]
    /\ ledger = [s \in Sessions |-> << >>]
    /\ pc = "idle"
    /\ args = NoArgs
    /\ pool = << >>
    /\ chosen = << >>
    /\ status = "none"
    /\ picked_before = {}
    /\ todo = << >>
    /\ event_queue = << >>
    /\ BuildIdle
    /\ IoIdle
    /\ PipeIdle

\* the picker names the event of a row it admitted
FormatEventName ==
    /\ calc.fn = "event_name" /\ calc.step = 0
    /\ calc' = [fn |-> "event_name", step |-> 1, in |-> calc.in,
                row |-> to_event_row(calc.in, 0, "yolo_win")]
    /\ UNCHANGED <<pickVars, ioVars, buildVars, pipeVars>>

\* the consumers read the seconds back from the name
ParseEventName ==
    /\ calc.fn = "event_name" /\ calc.step = 1
    /\ calc' = [fn |-> "event_name", step |-> 2, in |-> calc.in, row |-> calc.row,
                out |-> parse_event_abs_seconds(calc.row.event_name),
                start_abs |-> pipeline_start_abs(calc.row.event_name)]
    /\ UNCHANGED <<pickVars, ioVars, buildVars, pipeVars>>

\* steps 3 and 4 of main() in analyze_y2_events.py
DetectHits ==
    /\ calc.fn = "detect_hits_4sec" /\ calc.step = 0
    /\ calc' = [fn |-> calc.fn, step |-> 1, in |-> calc.in,
                out |-> detect_hits_4sec(compute_delta(calc.in.rows),
                                         calc.in.dy_threshold, calc.in.min_len_sec)]
    /\ UNCHANGED <<pickVars, ioVars, buildVars, pipeVars>>

MergeOverlaps ==
    /\ calc.fn = "merge_overlaps" /\ calc.step = 0
    /\ calc' = [fn |-> calc.fn, step |-> 1, in |-> calc.in,
                out |-> merge_overlaps(calc.in.segs)]
    /\ UNCHANGED <<pickVars, ioVars, buildVars, pipeVars>>

CapAndInterval ==
    /\ calc.fn = "cap_and_interval" /\ calc.step = 0
    /\ calc' = [fn |-> calc.fn, step |-> 1, in |-> calc.in,
                out |-> cap_and_interval(calc.in.events, calc.in.max_len,
                                         calc.in.min_gap)]
    /\ UNCHANGED <<pickVars, ioVars, buildVars, pipeVars>>

\* steps 5 to 8 of main() in analyze_y2_events.py: the segments of the hits,
\* merged, then the OP/ED exclusion, then the cap and the interval
AnalyzeMain ==
    /\ calc.fn = "analyze" /\ calc.step = 0
    /\ LET a == calc.in
           segs == hits_to_segments_15s(a.hits, a.pre_sec, a.seg_len, a.duration)
           merged == merge_overlaps(segs)
           no_oped == apply_op_ed_exclusion(merged, a.duration, a.op, a.ed)
           final_events == cap_and_interval(no_oped, a.max_event, a.gap)
       IN  calc' = [fn |-> calc.fn, step |-> 1, in |-> calc.in, segs |-> segs,
                    merged |-> merged, out |-> final_events]
    /\ UNCHANGED <<pickVars, ioVars, buildVars, pipeVars>>

\* one session of the loop of main() in build_candidates_win.py, up to the
\* rows it would write
BuildCandidates ==
    /\ calc.fn = "build_candidates" /\ calc.step = 0
    /\ LET per == FilledLog(calc.in.dur, calc.in.fill)
           dur_sec == infer_duration_sec(per)
       IN  calc' = [fn |-> calc.fn, step |-> 1, in |-> calc.in, dur_sec |-> dur_sec,
                    out |-> build_candidates(per, dur_sec)]
    /\ UNCHANGED <<pickVars, ioVars, buildVars, pipeVars>>

\* motion_p90_p10 on the centers of one window
MotionP90P10 ==
    /\ calc.fn = "motion_p90_p10" /\ calc.step = 0
    /\ LET cx_list == [i \in 1..Len(calc.in.cx2) |-> HalfOf(calc.in.cx2[i])]
       IN  calc' = [fn |-> calc.fn, step |-> 1, in |-> calc.in,
                    p10 |-> pctl_float(cx_list, Q10), p90 |-> pctl_float(cx_list, Q90),
                    out |-> motion_float(cx_list)]
    /\ UNCHANGED <<pickVars, ioVars, buildVars, pipeVars>>

NextCalc == FormatEventName \/ ParseEventName \/ DetectHits \/ MergeOverlaps \/ CapAndInterval \/ AnalyzeMain \/ BuildCandidates \/ MotionP90P10

SpecCalc == InitCalc /\ [][NextCalc]_vars

--------------------------------------------------------------------------
(* Properties of the picker *)

GlobalRun == pc = "done" /\ args.mode \in Modes
BandRun   == pc = "done" /\ args.mode \in {"band", "hybrid"}
Selected  == pc = "done" /\ status \in {"ok", "dry"}

Key(row) == << row.session_dir, row.source_index >>

\* the half-open intervals [start_abs, end_abs) of two rows share a second
Intersect(x, y) == Max(x.start_abs, y.start_abs) < Min(x.end_abs, y.end_abs)

CountIn(seq, Test(_)) == Cardinality({ k \in 1..Len(seq) : Test(seq[k]) })

\* C1: a row that an earlier committed run marked is neither in the pool nor
\* in the selection of any later run, whatever that run's arguments.
C1_NeverRepicked ==
    pc = "done" =>
        /\ \A k \in 1..Len(pool)   : Key(pool[k])   \notin picked_before
        /\ \A k \in 1..Len(chosen) : Key(chosen[k]) \notin picked_before

\* a committed run selects rows after an earlier committed run marked others
C1_Witness ==
    /\ pc = "done" /\ status = "ok"
    /\ picked_before # {}
    /\ chosen # << >>

\* C2: in band and hybrid modes no row is admitted twice across the bands.
C2_NoDuplicates ==
    BandRun =>
        \A i, j \in 1..Len(chosen) : Key(chosen[i]) = Key(chosen[j]) => i = j

\* C3: the rows admitted for a band never outnumber the band's quota n.
C3_BandQuota ==
    (pc = "done" /\ args.mode \in {"band", "hybrid", "session"}) =>
        \A b \in 1..Len(args.ranges) :
            CountIn(chosen, LAMBDA x : x.band = b) <= args.ranges[b].n

\* a band is filled to its quota while a further row of its range is in the pool
C3_Witness ==
    /\ BandRun /\ status = "ok"
    /\ \E b \in 1..Len(args.ranges) :
          /\ CountIn(chosen, LAMBDA x : x.band = b) = args.ranges[b].n
          /\ CountIn(pool, LAMBDA x : in_range(x.motion, args.ranges[b]))
                > args.ranges[b].n

\* C4: with no_overlap set, no two selected rows of one session intersect
\* (rows of different sessions may).
C4_NoOverlap ==
    (GlobalRun /\ args.no_overlap) =>
        \A i, j \in 1..Len(chosen) :
            (i # j /\ chosen[i].session_dir = chosen[j].session_dir)
                => ~Intersect(chosen[i], chosen[j])

\* with no_overlap set: two rows of one session, and two intersecting rows of
\* different sessions, are selected together
C4_Witness ==
    /\ GlobalRun /\ args.no_overlap /\ status = "ok"
    /\ \E i, j \in 1..Len(chosen) :
          i # j /\ chosen[i].session_dir = chosen[j].session_dir
    /\ \E i, j \in 1..Len(chosen) :
          /\ chosen[i].session_dir # chosen[j].session_dir
          /\ Intersect(chosen[i], chosen[j])

\* C5: with max_per_session > 0 no session has more than max_per_session
\* selected rows, the count running across the bands.
C5_SessionCap ==
    (GlobalRun /\ args.max_per_session > 0) =>
        \A s \in Sessions :
            CountIn(chosen, LAMBDA x : x.session_dir = s) <= args.max_per_session

\* the first band admits a row of a session, and the cap keeps the second band
\* from admitting another row of that session that lies in its range
C5_Witness ==
    /\ BandRun /\ status = "ok" /\ args.max_per_session = 1
    /\ \E k \in 1..Len(chosen), m \in 1..Len(pool) :
          /\ chosen[k].band = 1
          /\ pool[m].session_dir = chosen[k].session_dir
          /\ Key(pool[m]) # Key(chosen[k])
          /\ in_range(pool[m].motion, args.ranges[2])
          /\ \A j \in 1..Len(chosen) : Key(chosen[j]) # Key(pool[m])

\* C6: in motion mode, when neither the cap nor non-overlap can reject a row,
\* the selection is the first total rows of the pool stably sorted by motion
\* descending, so no selected row has a lower motion than one left out.
C6_MotionOrder ==
    (Selected /\ args.mode = "motion" /\ args.max_per_session = 0 /\ ~args.no_overlap) =>
        /\ chosen = SubSeq(SortedDesc(pool), 1, Min(args.total, Len(pool)))
        /\ \A k \in 1..Len(chosen), m \in 1..Len(pool) :
              (\A j \in 1..Len(chosen) : Key(chosen[j]) # Key(pool[m]))
                  => chosen[k].motion >= pool[m].motion

\* C7: a mark keeps the number and order of a ledger's rows, leaves every row
\* that was not admitted as it was, and on an admitted row changes nothing but
\* picked_at and pick_id.
C7_MarkFrame ==
    [][ (pc = "idle" /\ pc' = "done" /\ status' = "ok") =>
          \A s \in Sessions :
             LET old == read_jsonl(ledger[s]).rows
                 new == read_jsonl(ledger'[s]).rows
             IN  /\ Len(new) = Len(old)
                 /\ \A i \in 1..Len(old) :
                       IF << s, i >> \in Keys(chosen')
                       THEN /\ new[i].picked_at # NoStamp
                            /\ new[i].pick_id # NoStamp
                            /\ new[i] = [old[i] EXCEPT !.picked_at = new[i].picked_at,
                                                       !.pick_id = new[i].pick_id]
                       ELSE new[i] = old[i] ]_vars

\* a committed run has marked one row of a ledger and left another unmarked
C7_Witness ==
    /\ pc = "done" /\ status = "ok"
    /\ \E s \in Sessions :
          LET rows == read_jsonl(ledger[s]).rows
          IN  /\ \E i \in 1..Len(rows) :
                    << s, i >> \in Keys(chosen) /\ rows[i].picked_at # NoStamp
              /\ \E i \in 1..Len(rows) :
                    /\ << s, i >> \notin Keys(chosen)
                    /\ rows[i].kind = "row" /\ rows[i].picked_at = NoStamp

\* C10: a ledger with a malformed line is loaded without failing, so the run
\* still completes on the well-formed rows.
C10_SkipMalformed ==
    pc = "done" => status # "error"

--------------------------------------------------------------------------
(* Properties of the file operations *)

\* what a reader of the ledger path gets
LedgerVisible == fs[dir.ledger]

\* what a reader of the queue path gets, as load_queue_lines returns it
QueueVisible == load_queue_lines(fs[dir.queue])

Marked(p) == proc[p].pc \in {"marked", "writing", "closed", "done", "crashed", "failed"}
                /\ proc[p].mem # << >>

\* the ledger path holds the ledger as it was or the writer's complete rows
LedgerReplaceAtomic ==
    \/ LedgerVisible = origin.ledger
    \/ Marked("w1") /\ LedgerVisible = proc["w1"].mem

\* the queue path holds the queue as it was or all of the remaining lines
QueueDrainAtomic ==
    \/ QueueVisible = load_queue_lines(origin.queue)
    \/ drain.lines # << >> /\ QueueVisible = drain.remaining

\* C8: with one writer, at every step of a ledger mark and of a queue drain,
\* a crash included, the path shows the complete old or the complete new file.
C8_AtomicVisible == LedgerReplaceAtomic /\ QueueDrainAtomic

BothReplaced == \A p \in Writers : proc[p].pc = "done"

\* C9: when both writers have replaced the ledger, the ledger is the complete
\* version of the writer whose replace came last: its rows are the rows that
\* writer read, marked where it had chosen, whatever the other writer marked.
C9_LastReplaceWins ==
    BothReplaced =>
        LET w    == last_replace
            snap == proc[w].snap
        IN  /\ Len(LedgerVisible) = Len(snap)
            /\ \A i \in 1..Len(snap) :
                  LedgerVisible[i] =
                     IF i \in proc[w].idxs
                     THEN [snap[i] EXCEPT !.picked_at = Stamp(w),
                                          !.pick_id = PickId(Stamp(w))]
                     ELSE snap[i]

\* the lost update: both writers have replaced the ledger, and a row the
\* first of them marked is unmarked in the ledger
C9_Witness ==
    /\ BothReplaced
    /\ \E p \in Writers :
          /\ p # last_replace
          /\ \E i \in proc[p].idxs :
                /\ proc[p].mem[i].picked_at = Stamp(p)
                /\ LedgerVisible[i].picked_at = NoStamp

--------------------------------------------------------------------------
(* Properties of the builder and of the event queue *)

BuildRan == build.status \in {"done", "error"}

\* C11: in a build over many sessions, a session whose log cannot be loaded
\* does not stop the others: every other session that had no ledger has one
\* after the run.
C11_FailureIsolated ==
    (BuildRan /\ ~build.dry_run) =>
        \A s \in Sessions :
            (s \notin build.had /\ load_per_sec(RawLog(raw[s])).ok) => s \in exists

\* C12: every row once in a session's ledger is still there after any build
\* or picker run, and every picked_at once set is still set.
C12_RowsAndMarksKept ==
    [][ \A s \in Sessions :
          LET old == read_jsonl(ledger[s]).rows
              new == read_jsonl(ledger'[s]).rows
          IN  /\ Len(new) >= Len(old)
              /\ \A i \in 1..Len(old) :
                    /\ new[i].start_abs = old[i].start_abs
                    /\ new[i].end_abs = old[i].end_abs
                    /\ old[i].picked_at # NoStamp => new[i].picked_at = old[i].picked_at
      ]_vars

\* C13: a dry run of the picker or of the builder writes nothing: the ledgers,
\* the set of ledger files and the event queue are as before the run.
C13_DryRunWritesNothing ==
    [][ (\/ pc = "idle" /\ pc' = "done" /\ args'.dry_run
         \/ build.status = "none" /\ build'.status # "none" /\ build'.dry_run) =>
            /\ ledger' = ledger
            /\ exists' = exists
            /\ event_queue' = event_queue ]_vars

\* a dry run of the picker has selected rows of ledgers the builder wrote
C13_Witness ==
    /\ pc = "done" /\ args.dry_run /\ status = "dry"
    /\ chosen # << >>
    /\ exists = Sessions
    /\ \A k \in 1..Len(chosen) :
          read_jsonl(ledger[chosen[k].session_dir]).rows[chosen[k].source_index].picked_at
             = NoStamp

Short(b) == CountIn(chosen, LAMBDA x : x.band = b) < args.ranges[b].n

IsMarked(row) ==
    read_jsonl(ledger[row.session_dir]).rows[row.source_index].picked_at # NoStamp

IsScheduled(row) ==
    \E j \in 1..Len(event_queue) :
        /\ event_queue[j].session_dir = row.session_dir
        /\ event_queue[j].event_name = EventName(row.start_abs, row.end_abs)

\* no cap and no overlap test can reject a row in this run
NoReject ==
    IF args.mode = "session" THEN args.no_overlap
    ELSE args.max_per_session = 0 /\ ~args.no_overlap

\* C14: a band that cannot be filled does not abort the batch: the run ends
\* without an error, a later band with rows in its range still admits (when no
\* cap or overlap test can reject), and the selected rows are marked and,
\* when the run enqueues, scheduled.
C14_ShortfallAccepted ==
    (pc = "done" /\ args.mode \in {"band", "hybrid", "session"} /\ pool # << >>
       /\ \E b \in 1..Len(args.ranges) : Short(b)) =>
        /\ status \in {"ok", "dry", "nothing_picked"}
        /\ \A b \in 1..Len(args.ranges), b2 \in 1..Len(args.ranges) :
              (Short(b) /\ b < b2 /\ NoReject /\ InBand(pool, args.ranges[b2]) # << >>) =>
                  \E k \in 1..Len(chosen) : chosen[k].band = b2
        /\ status = "ok" =>
              \A k \in 1..Len(chosen) :
                 IsMarked(chosen[k]) /\ (args.enqueue => IsScheduled(chosen[k]))

\* the first band has no row, the second band's row is selected, marked and
\* scheduled
C14_Witness ==
    /\ pc = "done" /\ args.mode = "band" /\ status = "ok"
    /\ CountIn(chosen, LAMBDA x : x.band = 1) = 0
    /\ \E k \in 1..Len(chosen) :
          chosen[k].band = 2 /\ IsMarked(chosen[k]) /\ IsScheduled(chosen[k])

Enqueued == pc = "done" /\ status = "ok" /\ args.enqueue

\* C15: a committed run appends one schedule entry per selected row, in
\* selection order, after the lines the queue held; the i-th entry (from 0) is
\* published at start + i * pitch, so with a positive pitch the times of a
\* batch increase strictly.
C15_ScheduleEntries ==
    Enqueued =>
        LET n      == Len(chosen)
            before == Len(event_queue) - n
            pitch  == IF args.mode = "session" THEN args.pitch_hours
                      ELSE IF args.pitch_hours < 0 THEN 3 ELSE args.pitch_hours
        IN  /\ before >= 0
            /\ SubSeq(event_queue, 1, before) \in StartQueues
            /\ \A i \in 1..n :
                  /\ event_queue[before + i].session_dir = chosen[i].session_dir
                  /\ event_queue[before + i].event_name =
                        EventName(chosen[i].start_abs, chosen[i].end_abs)
                  /\ event_queue[before + i].publishAt =
                        (18 * 60 + 5) + (i - 1) * pitch * 60
            /\ \A i \in 1..(n - 1) :
                  pitch > 0 =>
                     event_queue[before + i].publishAt
                        < event_queue[before + i + 1].publishAt

\* a batch of two rows or more is appended to a queue that held a line
C15_Witness ==
    /\ Enqueued /\ args.mode # "session"
    /\ Len(chosen) >= 2
    /\ event_queue[1] = OldEvent
    /\ Len(event_queue) = 1 + Len(chosen)

--------------------------------------------------------------------------
(* Properties of the pure functions *)

\* C16: the event name of a row with non-negative integer seconds reads back
\* as exactly (start_abs, end_abs) in both consumers, also when a value has
\* more than five digits
C16_EventNameRoundTrip ==
    (calc.fn = "event_name" /\ calc.step = 2) =>
        /\ calc.out = << calc.in.start_abs, calc.in.end_abs >>
        /\ calc.start_abs = << calc.in.start_abs >>

C16_Witness ==
    /\ calc.fn = "event_name" /\ calc.step = 2
    /\ calc.in.start_abs = 1234567 /\ calc.in.end_abs = 7
    /\ calc.row.event_name = << "1", "2", "3", "4", "5", "6", "7", "_", "0", "0", "0", "0", "7" >>
    /\ calc.out = << 1234567, 7 >>

Contiguous(rows) == \A i \in 1..(Len(rows) - 1) : rows[i + 1].sec = rows[i].sec + 1

\* entry i is active: abs(delta) >= dy_threshold, the first delta being 0
ActiveAt(rows, i, dy_threshold) ==
    Abs(IF i = 1 THEN 0 ELSE rows[i].y - rows[i - 1].y) >= dy_threshold

\* the maximal runs of consecutive active entries, as <<first, last>> indexes
MaximalRuns(rows, dy_threshold) ==
    { run \in (1..Len(rows)) \X (1..Len(rows)) :
        /\ run[1] <= run[2]
        /\ \A i \in run[1]..run[2] : ActiveAt(rows, i, dy_threshold)
        /\ run[1] = 1 \/ ~ActiveAt(rows, run[1] - 1, dy_threshold)
        /\ run[2] = Len(rows) \/ ~ActiveAt(rows, run[2] + 1, dy_threshold) }

ExpectedHits(rows, dy_threshold, min_len_sec) ==
    { << rows[run[1]].sec, rows[run[2]].sec + 1 >> :
        run \in { r \in MaximalRuns(rows, dy_threshold) : r[2] - r[1] + 1 >= min_len_sec } }

Example1Rows == MeanRows(<< 100, 100, 100, 106, 110, 108, 100, 100 >>)

Example2Rows == MeanRows(<< 0, 0, 0, 5, 9, 13, 17, 17, 17 >>)

\* C17: on a metric with one entry per second, detect_hits_4sec returns
\* exactly the maximal runs of consecutive active entries of length at least
\* min_len_sec, each as [run_start, run_last + 1), in order, a run that
\* reaches the end included; the first example gives no interval, the second
\* exactly [3, 7)
C17_MaximalRuns ==
    (calc.fn = "detect_hits_4sec" /\ calc.step = 1 /\ Contiguous(calc.in.rows)) =>
        /\ { calc.out[i] : i \in 1..Len(calc.out) }
              = ExpectedHits(calc.in.rows, calc.in.dy_threshold, calc.in.min_len_sec)
        /\ \A i \in 1..(Len(calc.out) - 1) : calc.out[i][2] < calc.out[i + 1][1]
        /\ (calc.in.rows = Example1Rows /\ calc.in.min_len_sec = 3) => calc.out = << >>
        /\ (calc.in.rows = Example2Rows /\ calc.in.min_len_sec = 3)
              => calc.out = << << 3, 7 >> >>

\* a run of three seconds that reaches the end of the metric
C17_Witness ==
    /\ calc.fn = "detect_hits_4sec" /\ calc.step = 1
    /\ calc.in.rows = MeanRows(<< 0, 0, 5, 0, 5 >>)
    /\ calc.in.min_len_sec = 3
    /\ calc.out = << << 2, 5 >> >>

C17_WitnessExample ==
    /\ calc.fn = "detect_hits_4sec" /\ calc.step = 1
    /\ calc.in.rows = Example2Rows
    /\ calc.in.min_len_sec = 3
    /\ calc.out = << << 3, 7 >> >>

\* C18: a missing second ends a run: two active records that follow each
\* other with a second missing between them are never in the same interval,
\* and no interval covers a second that has no record
C18_GapEndsRun ==
    (calc.fn = "detect_hits_4sec" /\ calc.step = 1) =>
        \A h \in 1..Len(calc.out) :
            /\ \A t \in calc.out[h][1]..(calc.out[h][2] - 1) :
                  \E i \in 1..Len(calc.in.rows) : calc.in.rows[i].sec = t
            /\ \A i \in 1..(Len(calc.in.rows) - 1) :
                  (/\ calc.in.rows[i + 1].sec > calc.in.rows[i].sec + 1
                   /\ ActiveAt(calc.in.rows, i, calc.in.dy_threshold)
                   /\ ActiveAt(calc.in.rows, i + 1, calc.in.dy_threshold))
                  => ~(/\ calc.out[h][1] <= calc.in.rows[i].sec
                       /\ calc.in.rows[i + 1].sec < calc.out[h][2])

\* the seconds a list of segments [start, end) covers
Seconds(segs) == UNION { segs[i][1]..(segs[i][2] - 1) : i \in 1..Len(segs) }

\* C19: merge_overlaps returns segments sorted by start, every next start
\* strictly greater than the previous end, covering exactly the seconds the
\* input covers; [(5,15),(10,20),(25,30)] gives [(5,20),(25,30)]
C19_MergeDisjointCover ==
    (calc.fn = "merge_overlaps" /\ calc.step = 1) =>
        /\ \A i \in 1..(Len(calc.out) - 1) :
              /\ calc.out[i][1] < calc.out[i + 1][1]
              /\ calc.out[i][2] < calc.out[i + 1][1]
        /\ Seconds(calc.out) = Seconds(calc.in.segs)
        /\ calc.in.segs = << << 5, 15 >>, << 10, 20 >>, << 25, 30 >> >>
              => calc.out = << << 5, 20 >>, << 25, 30 >> >>

C19_Witness ==
    /\ calc.fn = "merge_overlaps" /\ calc.step = 1
    /\ calc.in.segs = << << 2, 3 >>, << 0, 1 >>, << 1, 2 >> >>
    /\ calc.out = << << 0, 3 >> >>

C19_WitnessExample ==
    /\ calc.fn = "merge_overlaps" /\ calc.step = 1
    /\ calc.in.segs = << << 5, 15 >>, << 10, 20 >>, << 25, 30 >> >>
    /\ calc.out = << << 5, 20 >>, << 25, 30 >> >>

\* a segment cut to max_len from its start
Capped(seg, max_len) ==
    IF seg[2] - seg[1] > max_len THEN << seg[1], seg[1] + max_len >> ELSE seg

\* C20: with max_len >= 0 and min_gap >= 0, cap_and_interval returns segments
\* of the input in start order, each cut to max_len from its start when it is
\* longer, every next start at least the previous kept (cut) end + min_gap;
\* the earliest segment is kept and a segment is left out only when it starts
\* within min_gap of the cut end of a kept segment before it;
\* [(0,70),(80,85)] with 60 and 60 gives [(0,60)]
C20_CapAndInterval ==
    (calc.fn = "cap_and_interval" /\ calc.step = 1) =>
        LET events == calc.in.events
            max_len == calc.in.max_len
            min_gap == calc.in.min_gap
            out == calc.out
            capped == { Capped(events[k], max_len) : k \in 1..Len(events) }
        IN  /\ \A i \in 1..Len(out) :
                  /\ out[i] \in capped
                  /\ out[i][2] - out[i][1] <= max_len
            /\ \A i \in 1..(Len(out) - 1) :
                  /\ out[i][1] <= out[i + 1][1]
                  /\ out[i + 1][1] >= out[i][2] + min_gap
            /\ events # << >> =>
                  /\ out # << >>
                  /\ \A k \in 1..Len(events) : out[1][1] <= events[k][1]
            /\ \A c \in capped :
                  (\A i \in 1..Len(out) : out[i] # c) =>
                      \E i \in 1..Len(out) :
                          /\ out[i][1] <= c[1]
                          /\ c[1] < out[i][2] + min_gap
            /\ (events = << << 0, 70 >>, << 80, 85 >> >> /\ max_len = 60 /\ min_gap = 60)
                  => out = << << 0, 60 >> >>

\* a segment is cut, the next one is too close and left out, the third kept
C20_Witness ==
    /\ calc.fn = "cap_and_interval" /\ calc.step = 1
    /\ calc.in.events = << << 0, 3 >>, << 2, 4 >>, << 3, 4 >> >>
    /\ calc.in.max_len = 2 /\ calc.in.min_gap = 1
    /\ calc.out = << << 0, 2 >>, << 3, 4 >> >>

C20_WitnessExample ==
    /\ calc.fn = "cap_and_interval" /\ calc.step = 1
    /\ calc.in.events = << << 0, 70 >>, << 80, 85 >> >>
    /\ calc.in.max_len = 60 /\ calc.in.min_gap = 60
    /\ calc.out = << << 0, 60 >> >>

\* C21: no segment of the final list of path A starts before op_sec or ends
\* after duration - ed_sec, and every segment of the list comes from a merged
\* segment that is itself inside both bounds (one that is not is dropped,
\* never clipped to fit)
C21_OutsideOpEd ==
    (calc.fn = "analyze" /\ calc.step = 1) =>
        \A i \in 1..Len(calc.out) :
            /\ calc.out[i][1] >= calc.in.op
            /\ 10 * calc.out[i][2] <= calc.in.duration - 10 * calc.in.ed
            /\ \E k \in 1..Len(calc.merged) :
                  /\ calc.out[i] = Capped(calc.merged[k], calc.in.max_event)
                  /\ calc.merged[k][1] >= calc.in.op
                  /\ 10 * calc.merged[k][2] <= calc.in.duration - 10 * calc.in.ed

\* a segment in the head zone and one over the tail zone are dropped, the one
\* between them is kept
C21_Witness ==
    /\ calc.fn = "analyze" /\ calc.step = 1
    /\ calc.in.op = 2 /\ calc.in.ed = 2
    /\ Len(calc.merged) = 2
    /\ calc.merged[1][1] < 2
    /\ calc.out = << calc.merged[2] >>

\* C25: the final list of path A is exclusion(cap_and_interval(merge(segments)))
C25_SpecOrder ==
    (calc.fn = "analyze" /\ calc.step = 1) =>
        calc.out = apply_op_ed_exclusion(
                       cap_and_interval(merge_overlaps(calc.segs),
                                        calc.in.max_event, calc.in.gap),
                       calc.in.duration, calc.in.op, calc.in.ed)

\* C22: the candidates of one build of a session do not overlap pairwise,
\* every candidate is WIN_SEC long, and start_abs - CUT_HEAD_SEC is a
\* multiple of STRIDE_SEC
C22_WindowsDisjoint ==
    (calc.fn = "build_candidates" /\ calc.step = 1) =>
        /\ \A i \in 1..Len(calc.out) :
              /\ calc.out[i].end_abs = calc.out[i].start_abs + WIN_SEC
              /\ (calc.out[i].start_abs - CUT_HEAD_SEC) % STRIDE_SEC = 0
        /\ \A i, j \in 1..Len(calc.out) :
              i # j => \/ calc.out[i].end_abs <= calc.out[j].start_abs
                       \/ calc.out[j].end_abs <= calc.out[i].start_abs

\* two windows that touch
C22_Witness ==
    /\ calc.fn = "build_candidates" /\ calc.step = 1
    /\ Len(calc.out) = 3
    /\ calc.out[1].end_abs = calc.out[2].start_abs

\* C23: every candidate has start_abs >= CUT_HEAD_SEC and end_abs <= duration
\* - CUT_TAIL_SEC, a session shorter than CUT_HEAD_SEC + CUT_TAIL_SEC +
\* WIN_SEC has no candidate, and HITS_MIN <= hits <= WIN_SEC
C23_OutsideCuts ==
    (calc.fn = "build_candidates" /\ calc.step = 1) =>
        /\ \A i \in 1..Len(calc.out) :
              /\ calc.out[i].start_abs >= CUT_HEAD_SEC
              /\ calc.out[i].end_abs <= calc.dur_sec - CUT_TAIL_SEC
              /\ HITS_MIN <= calc.out[i].hits
              /\ calc.out[i].hits <= WIN_SEC
        /\ calc.dur_sec < CUT_HEAD_SEC + CUT_TAIL_SEC + WIN_SEC => calc.out = << >>

\* the shortest session that has a candidate: its window ends where the tail
\* cut begins, with just enough hits
C23_Witness ==
    /\ calc.fn = "build_candidates" /\ calc.step = 1
    /\ calc.dur_sec = CUT_HEAD_SEC + CUT_TAIL_SEC + WIN_SEC
    /\ Len(calc.out) = 1
    /\ calc.out[1].end_abs = calc.dur_sec - CUT_TAIL_SEC
    /\ calc.out[1].hits = HITS_MIN

\* a session one second too short, every second with a detection
C23_WitnessShort ==
    /\ calc.fn = "build_candidates" /\ calc.step = 1
    /\ calc.dur_sec = CUT_HEAD_SEC + CUT_TAIL_SEC + WIN_SEC - 1
    /\ calc.in.fill = 20
    /\ calc.out = << >>

--------------------------------------------------------------------------
(* Properties of the bands *)

\* the run kept every row its bands selected: no [:total] cut took place
NoCut == args.total = 0 \/ Len(chosen) < args.total

\* C26: a row is eligible for a band iff lo <= motion <= hi, both ends
\* included: every row admitted for a band is inside it, and when a band
\* stays short in a run in which nothing else can reject a row, every pool
\* row inside the band, a row on a shared boundary included, was admitted
\* for it
C26_InclusiveBands ==
    (pc = "done" /\ args.mode \in {"band", "hybrid", "session"}) =>
        /\ \A k \in 1..Len(chosen) :
              /\ args.ranges[chosen[k].band].lo <= chosen[k].motion
              /\ chosen[k].motion <= args.ranges[chosen[k].band].hi
        /\ (args.mode \in {"band", "session"} /\ NoReject /\ NoCut
              /\ status \in {"ok", "dry", "nothing_picked"}) =>
              \A b \in 1..Len(args.ranges) :
                  Short(b) =>
                      \A i \in 1..Len(pool) :
                          (args.ranges[b].lo <= pool[i].motion
                             /\ pool[i].motion <= args.ranges[b].hi) =>
                              \E k \in 1..Len(chosen) :
                                  /\ chosen[k].band = b
                                  /\ Key(chosen[k]) = Key(pool[i])

\* a row whose motion is the hi of the first band and the lo of the second
\* is admitted for the first band, and such a row is admitted for the second
C26_Witness ==
    /\ pc = "done" /\ args.mode = "band" /\ status = "ok"
    /\ \E k, j \in 1..Len(chosen) :
          /\ chosen[k].band = 1 /\ chosen[k].motion = args.ranges[1].hi
          /\ chosen[j].band = 2 /\ chosen[j].motion = args.ranges[2].lo
          /\ args.ranges[1].hi = args.ranges[2].lo

\* the pool rows inside band b
InBandIdx(b) ==
    { i \in 1..Len(pool) :
        args.ranges[b].lo <= pool[i].motion /\ pool[i].motion <= args.ranges[b].hi }

\* C27: in hybrid mode a row admitted for a band is among the top
\* max(1, floor(k / 2)) by motion of the k pool rows inside the band: fewer
\* than that many in-band rows have a strictly higher motion, so no in-band
\* row left out of the top half has a higher motion than an admitted one; a
\* band with one in-band row can admit it
C27_HybridTopHalf ==
    (pc = "done" /\ args.mode = "hybrid") =>
        \A k \in 1..Len(chosen) :
            LET b == chosen[k].band
                keep_n == Max(1, Cardinality(InBandIdx(b)) \div 2)
            IN  Cardinality({ i \in InBandIdx(b) : pool[i].motion > chosen[k].motion })
                    < keep_n

\* a band holds rows of different motion and the highest one is admitted
C27_Witness ==
    /\ pc = "done" /\ args.mode = "hybrid" /\ status = "ok"
    /\ \E k \in 1..Len(chosen) :
          /\ Cardinality(InBandIdx(chosen[k].band)) >= 2
          /\ \E i \in InBandIdx(chosen[k].band) : pool[i].motion < chosen[k].motion

\* a band with a single row inside it admits that row
C27_WitnessSingle ==
    /\ pc = "done" /\ args.mode = "hybrid" /\ status = "ok"
    /\ \E k \in 1..Len(chosen) : Cardinality(InBandIdx(chosen[k].band)) = 1

--------------------------------------------------------------------------
(* Properties of the order of the writes *)

\* C28: at every point of a picker run, and after a crash between any two of
\* its writes, every row of the run that a schedule entry refers to is marked
\* picked in its ledger
C28_MarkedBeforeScheduled ==
    (pc \in {"commit", "done"} /\ status \in {"running", "ok", "crashed"}) =>
        \A k \in 1..Len(chosen) : IsScheduled(chosen[k]) => IsMarked(chosen[k])

\* a crash between two appends: every chosen row is marked, one is scheduled
\* and one is not
C28_Witness ==
    /\ pc = "done" /\ status = "crashed"
    /\ \A k \in 1..Len(chosen) : IsMarked(chosen[k])
    /\ \E k, j \in 1..Len(chosen) : IsScheduled(chosen[k]) /\ ~IsScheduled(chosen[j])

--------------------------------------------------------------------------
(* Properties of the event-queue pipeline *)

\* C29: a pipeline run that has ended has left no lock file, whatever way it
\* ended, so no later run finds the lock of a finished run
C29_LockRemoved ==
    /\ pipe.pc \in {"idle", "done"} => ~pipe.lock
    /\ ~(pipe.pc = "done" /\ pipe.exit = "lock_exists")

\* the items of the run that failed, in processing order
FailedItems ==
    LET taken == [i \in 1..Len(pipe.outcomes) |->
                     [item |-> pipe.start_lines[i], outcome |-> pipe.outcomes[i]]]
        failed == SelectSeq(taken, LAMBDA x : x.outcome \in FailOutcomes)
    IN  [i \in 1..Len(failed) |-> failed[i].item]

\* C30: after a completed run in queue mode the event queue is the items of
\* the run that failed, in processing order, then the lines beyond --max in
\* their order
C30_RetryThenRest ==
    (pipe.pc = "done" /\ pipe.exit = "processed" /\ pipe.queue_mode) =>
        /\ Len(pipe.outcomes) = Min(pipe.args.max, Len(pipe.start_lines))
        /\ event_queue =
              FailedItems \o SubSeq(pipe.start_lines, Len(pipe.outcomes) + 1,
                                    Len(pipe.start_lines))

\* of three lines the first fails, the second is rendered and the third is
\* beyond --max
C30_Witness ==
    /\ pipe.pc = "done" /\ pipe.exit = "processed" /\ pipe.queue_mode
    /\ Len(pipe.start_lines) = 3 /\ pipe.args.max = 2
    /\ pipe.outcomes = << "render_failed", "ok" >>
    /\ pipe.start_lines[1] # pipe.start_lines[3]
    /\ event_queue = << pipe.start_lines[1], pipe.start_lines[3] >>

--------------------------------------------------------------------------
(* Properties of the motion score *)

AllEqual(seq) == \A i, j \in 1..Len(seq) : seq[i] = seq[j]

\* C24: the motion score of the centers [10, 20, 30, 40, 50] is 32, from
\* p10 = 14 and p90 = 46; no motion score is negative; the motion score of
\* centers that are all equal is 0
C24_MotionSpread ==
    (calc.fn = "motion_p90_p10" /\ calc.step = 1) =>
        /\ calc.in.cx2 = ExampleCenters =>
              /\ calc.p10 = F64Of(14)
              /\ calc.p90 = F64Of(46)
              /\ calc.out = F64Of(32)
        /\ ~FNegative(calc.out)
        /\ AllEqual(calc.in.cx2) => FIsZero(calc.out)

\* the example alone: the floats give 14, 46 and 32 without any rounding
C24_Example ==
    (calc.fn = "motion_p90_p10" /\ calc.step = 1 /\ calc.in.cx2 = ExampleCenters) =>
        /\ calc.p10 = F64Of(14)
        /\ calc.p90 = F64Of(46)
        /\ calc.out = F64Of(32)

====
